---- MODULE Spec2Model ----
(***************************************************************************)
(* A model of the analytic core of ShazbotCards: the trend engine          *)
(* (js/trends.js) and the health scorer (js/analyzer.js).                  *)
(*                                                                         *)
(* The core is a library of synchronous functions.  A state of the model   *)
(* is one call: the operation last applied (op), its arguments (args, a    *)
(* record whose fields carry the parameter names of the source) and the    *)
(* value it returned (result).  Every family of functions has its own      *)
(* specification, whose Init draws the arguments from bounded sets and     *)
(* whose actions apply the functions.                                      *)
(*                                                                         *)
(* JavaScript values.  A number is an exact rational [t |-> "num", n, d]   *)
(* in lowest terms with d > 0; null, undefined, NaN and -Infinity are      *)
(* values of the same shape with another tag, so that any two values can   *)
(* be compared.  Floating-point rounding is not modelled: the arithmetic   *)
(* is exact, except where the source itself rounds (toFixed, Math.round).  *)
(***************************************************************************)
EXTENDS Integers, Sequences, FiniteSets, TLC

VARIABLES op, args, result

vars == <<op, args, result>>

\* ------------------------------------------------------------ JS values

Null == [t |-> "null", n |-> 0, d |-> 1]

Undefined == [t |-> "undefined", n |-> 0, d |-> 1]

NaN == [t |-> "NaN", n |-> 0, d |-> 1]

NegInfinity == [t |-> "-Infinity", n |-> 0, d |-> 1]

\* The value of `result` before any function has been applied.
NotCalled == [t |-> "notcalled", n |-> 0, d |-> 1]

AbsInt(i) == IF i < 0 THEN -i ELSE i

RECURSIVE GCD(_, _)
GCD(a, b) == IF b = 0 THEN a ELSE GCD(b, a % b)

\* The rational n/d (d # 0) in lowest terms with a positive denominator.
Rat(n, d) ==
  LET g == GCD(AbsInt(n), AbsInt(d))
      s == IF d < 0 THEN -1 ELSE 1
  IN  [t |-> "num", n |-> (s * n) \div g, d |-> AbsInt(d) \div g]

Num(i) == Rat(i, 1)

IsNum(v) == v.t = "num"

IsZero(v) == IsNum(v) /\ v.n = 0

\* a - b, a / b, a * b and Math.abs(a) on numbers; any other operand, and a
\* division 0/0, gives NaN (the functions modelled here apply arithmetic to
\* numbers and to undefined only, and never divide a non-zero number by 0).
Sub(a, b) ==
  IF IsNum(a) /\ IsNum(b) THEN Rat(a.n * b.d - b.n * a.d, a.d * b.d) ELSE NaN

Add(a, b) ==
  IF IsNum(a) /\ IsNum(b) THEN Rat(a.n * b.d + b.n * a.d, a.d * b.d) ELSE NaN

Mul(a, b) ==
  IF IsNum(a) /\ IsNum(b) THEN Rat(a.n * b.n, a.d * b.d) ELSE NaN

Div(a, b) ==
  IF IsNum(a) /\ IsNum(b) /\ b.n # 0 THEN Rat(a.n * b.d, a.d * b.n) ELSE NaN

Abs(a) == IF IsNum(a) THEN Rat(AbsInt(a.n), a.d) ELSE NaN

\* a < b and a > b on numbers; a comparison with NaN or undefined is false.
Less(a, b) == IsNum(a) /\ IsNum(b) /\ a.n * b.d < b.n * a.d

Greater(a, b) == Less(b, a)

\* sign of a - b for two numbers, as a sort comparator returns it.
SignOfDiff(a, b) == IF Less(a, b) THEN -1 ELSE IF Less(b, a) THEN 1 ELSE 0

\* x || 0 : every falsy value (null, undefined, NaN, 0) becomes 0.
OrZero(x) == IF IsNum(x) /\ x.n # 0 THEN x ELSE Num(0)

\* s || dflt for a string: the empty string stands for every falsy value
\* (a missing field included).
OrStr(s, dflt) == IF s = "" THEN dflt ELSE s

\* An operation that hands back the object it was given instead of a new one:
\* what map, filter, slice or a spread would be if they worked in place.
SameObject(objects, value) == objects

\* Array.prototype.sort(compareFn): stable; an element moves before the
\* elements compareFn orders after it.  Computed as an insertion sort; cmp is
\* compareFn tabulated over the positions of s: cmp[i, j] = compareFn(s[i], s[j]).
SortBy(s, cmp) ==
  LET Insert(acc, i) ==
        LET ok == {j \in 1..Len(acc) : cmp[acc[j], i] <= 0}
            p  == IF ok = {} THEN 0 ELSE CHOOSE j \in ok : \A k \in ok : k <= j
        IN  SubSeq(acc, 1, p) \o <<i>> \o SubSeq(acc, p + 1, Len(acc))
      f[i \in 0..Len(s)] == IF i = 0 THEN <<>> ELSE Insert(f[i - 1], i)
  IN  [k \in 1..Len(s) |-> s[f[Len(s)][k]]]

\* All sequences over S of length at most n.
SeqsUpTo(S, n) == UNION {[1..k -> S] : k \in 0..n}

\* -------------------------------------------------------- trends.js

\* Trends.pctChange(a, b)
PctChangeNullOnZeroZero(a, b) ==
  IF a = Null \/ a = Undefined \/ b = Null \/ b = Undefined THEN Null
  ELSE IF IsZero(a) THEN Null
  ELSE Mul(Div(Sub(b, a), Abs(a)), Num(100))

pctChange(a, b) ==
  IF a = Null \/ a = Undefined \/ b = Null \/ b = Undefined THEN Null
  ELSE IF IsZero(a) /\ IsZero(b) THEN Num(0)
  ELSE IF IsZero(a) THEN Null
  ELSE Mul(Div(Sub(b, a), Abs(a)), Num(100))

\* ------------------------------------------- specification: pctChange

\* Largest magnitude of a number handed to pctChange.
MaxVal == 15

PctInputs == {Null, Undefined} \cup {Num(i) : i \in -MaxVal..MaxVal}

InitPct ==
  /\ op = "none"
  /\ args \in [a : PctInputs, b : PctInputs]
  /\ result = NotCalled

CallPctChange ==
  /\ op = "none"
  /\ op' = "pctChange"
  /\ result' = pctChange(args.a, args.b)
  /\ UNCHANGED args

NextPct == CallPctChange

SpecPct == InitPct /\ [][NextPct]_vars

Listing(itemId, title, imp, ctr, views, sold, score, badge, promoted) ==
  [itemId |-> itemId, title |-> title, totalImpressions |-> imp, ctr |-> ctr,
   totalPageViews |-> views, quantitySold |-> sold, healthScore |-> score,
   healthBadge |-> badge, isPromoted |-> promoted]

\* A stored report (snapshot): Storage.saveReport's record.
Report(id, uploadedAt, data) ==
  [id |-> id, uploadedAt |-> uploadedAt, data |-> data]

\* The keys of the map built by
\*   data.forEach(l => { if (l.itemId) map[l.itemId] = l; })
\* in insertion order: each non-empty itemId once, at its first occurrence.
MapKeys(data) ==
  LET f[i \in 0..Len(data)] ==
        IF i = 0 THEN <<>>
        ELSE IF data[i].itemId = "" \/ \E j \in 1..(i - 1) : data[j].itemId = data[i].itemId
             THEN f[i - 1]
             ELSE Append(f[i - 1], data[i].itemId)
  IN  f[Len(data)]

HasKey(data, id) == \E i \in 1..Len(data) : data[i].itemId = id /\ id # ""

\* map[id]: the last listing stored under id (a later one overwrites).
MapGet(data, id) ==
  LET last == CHOOSE i \in 1..Len(data) :
                /\ data[i].itemId = id
                /\ \A j \in 1..Len(data) : data[j].itemId = id => j <= i
  IN  data[last]

\* [...Object.keys(map1), ...Object.keys(map2)] without the Set around it.
AllIdsWithDuplicates(data1, data2) == MapKeys(data1) \o MapKeys(data2)

\* new Set([...Object.keys(map1), ...Object.keys(map2)]), in iteration order.
AllIds(data1, data2) ==
  LET k1 == MapKeys(data1)
      k2 == MapKeys(data2)
  IN  k1 \o SelectSeq(k2, LAMBDA id : ~HasKey(data1, id))

\* The r1 / r2 part of a comparison row.
RowSide(l) ==
  [totalImpressions |-> OrZero(l.totalImpressions),
   ctr |-> OrZero(l.ctr),
   totalPageViews |-> OrZero(l.totalPageViews),
   quantitySold |-> OrZero(l.quantitySold),
   healthScore |-> OrZero(l.healthScore),
   healthBadge |-> OrStr(l.healthBadge, "red")]

\* The row pushed for one id of allIds.
ComparisonRow(data1, data2, id) ==
  LET in1 == HasKey(data1, id)
      in2 == HasKey(data2, id)
  IN  [itemId |-> id,
       title |-> IF in2 THEN MapGet(data2, id).title ELSE MapGet(data1, id).title,
       r1 |-> IF in1 THEN RowSide(MapGet(data1, id)) ELSE Null,
       r2 |-> IF in2 THEN RowSide(MapGet(data2, id)) ELSE Null,
       impressionsChange |->
         pctChange(IF in1 THEN OrZero(MapGet(data1, id).totalImpressions) ELSE Null,
                   IF in2 THEN OrZero(MapGet(data2, id).totalImpressions) ELSE Null),
       isNew |-> ~in1 /\ in2,
       isDelisted |-> in1 /\ ~in2]

\* The comparator of rows.sort in the reverse direction of the last key.
CompareRowsAscending(a, b) ==
  IF a.isNew # b.isNew THEN (IF a.isNew THEN 1 ELSE -1)
  ELSE IF a.isDelisted # b.isDelisted THEN (IF a.isDelisted THEN 1 ELSE -1)
  ELSE SignOfDiff(Abs(OrZero(a.impressionsChange)), Abs(OrZero(b.impressionsChange)))

\* The comparator of rows.sort: bc - ac after the isNew and isDelisted keys.
CompareRows(a, b) ==
  IF a.isNew # b.isNew THEN (IF a.isNew THEN 1 ELSE -1)
  ELSE IF a.isDelisted # b.isDelisted THEN (IF a.isDelisted THEN 1 ELSE -1)
  ELSE SignOfDiff(Abs(OrZero(b.impressionsChange)), Abs(OrZero(a.impressionsChange)))

\* Trends.buildComparison(report1, report2)
buildComparison(report1, report2) ==
  IF report1 = Null \/ report2 = Null THEN <<>>
  ELSE LET ids  == AllIds(report1.data, report2.data)
           rows == [k \in 1..Len(ids) |-> ComparisonRow(report1.data, report2.data, ids[k])]
       IN  SortBy(rows, [i, j \in 1..Len(rows) |-> CompareRows(rows[i], rows[j])])

\* --------------------------------------- specification: buildComparison

\* Longest listing array of a compared report.
MaxListings == 2

\* itemIds of the compared reports; "" is a listing without an itemId.
CmpItemIds == {"", "a", "b", "c"}

CmpListing(id, title, imp) ==
  Listing(id, title, imp, Num(1), Null, Num(0), Num(45), "yellow", FALSE)

CmpListings1 == {CmpListing(id, "old", imp) : id \in CmpItemIds, imp \in {Num(0), Num(100)}}

CmpListings2 == {CmpListing(id, "new", imp) : id \in CmpItemIds, imp \in {Null, Num(50)}}

InitCmp ==
  /\ op = "none"
  /\ args \in [report1 : {Null} \cup {Report("r1", 1, d) : d \in SeqsUpTo(CmpListings1, MaxListings)},
               report2 : {Null} \cup {Report("r2", 2, d) : d \in SeqsUpTo(CmpListings2, MaxListings)}]
  /\ result = NotCalled

CallBuildComparison ==
  /\ op = "none"
  /\ op' = "buildComparison"
  /\ result' = buildComparison(args.report1, args.report2)
  /\ UNCHANGED args

NextCmp == CallBuildComparison

SpecCmp == InitCmp /\ [][NextCmp]_vars

\* The non-empty itemIds of a report's listings.
IdsOf(report) == {report.data[i].itemId : i \in 1..Len(report.data)} \ {""}

RowIsContinuing(r) == ~r.isNew /\ ~r.isDelisted

\* C2: buildComparison(A, B) has exactly one row per distinct non-empty itemId
\* of A or B, and a row is new iff its id is in B and not in A, delisted iff in
\* A and not in B, continuing iff in both: exactly one of the three.
C2_ComparisonPartition ==
  (op = "buildComparison" /\ args.report1 # Null /\ args.report2 # Null) =>
    LET A == IdsOf(args.report1)
        B == IdsOf(args.report2)
    IN  /\ {result[k].itemId : k \in 1..Len(result)} = A \cup B
        /\ Len(result) = Cardinality(A \cup B)
        /\ \A k \in 1..Len(result) :
             LET r == result[k]
             IN  /\ r.isNew <=> (r.itemId \in B \ A)
                 /\ r.isDelisted <=> (r.itemId \in A \ B)
                 /\ RowIsContinuing(r) <=> (r.itemId \in A \cap B)
                 /\ ~(r.isNew /\ r.isDelisted)

\* Both reports list "a", report1 alone "b", report2 alone "c".
C2_Witness ==
  /\ op = "buildComparison"
  /\ args.report1 # Null /\ args.report2 # Null
  /\ IdsOf(args.report1) = {"a", "b"}
  /\ IdsOf(args.report2) = {"a", "c"}
  /\ Len(result) = 3
  /\ \E i, j, k \in 1..3 :
       /\ RowIsContinuing(result[i]) /\ result[i].itemId = "a"
       /\ result[j].isDelisted /\ result[j].itemId = "b"
       /\ result[k].isNew /\ result[k].itemId = "c"

\* |impressionsChange| of a row, a null change counting as 0.
AbsChange(r) == Abs(OrZero(r.impressionsChange))

\* C3 as stated: continuing rows first in non-increasing |impressionsChange|,
\* then the new rows, then the delisted rows.
C3_Original_NewBeforeDelisted ==
  op = "buildComparison" =>
    \A i, j \in 1..Len(result) :
      i < j =>
        /\ RowIsContinuing(result[j]) => RowIsContinuing(result[i])
        /\ (RowIsContinuing(result[i]) /\ RowIsContinuing(result[j]))
             => ~Less(AbsChange(result[i]), AbsChange(result[j]))
        /\ result[j].isNew => ~result[i].isDelisted

\* C3 (amended): continuing rows first in non-increasing |impressionsChange|
\* (null as 0), then the delisted rows, then the new rows.
C3_ComparisonOrder ==
  op = "buildComparison" =>
    \A i, j \in 1..Len(result) :
      i < j =>
        /\ RowIsContinuing(result[j]) => RowIsContinuing(result[i])
        /\ (RowIsContinuing(result[i]) /\ RowIsContinuing(result[j]))
             => ~Less(AbsChange(result[i]), AbsChange(result[j]))
        /\ result[j].isDelisted => ~result[i].isNew

\* A new row listed first in report2 ends last: continuing, delisted, new.
C3_Witness ==
  /\ op = "buildComparison"
  /\ args.report1 # Null /\ args.report2 # Null
  /\ MapKeys(args.report2.data) = <<"c", "a">>
  /\ Len(result) = 3
  /\ RowIsContinuing(result[1])
  /\ result[2].isDelisted
  /\ result[3].isNew /\ result[3].itemId = "c"

\* ------------------------------------- trends.js: computeListingChange

\* One record of a timeline entry's snapshots (buildListingTimeline's push).
\* filename, reportPeriod and sport are carried along and read by no function
\* of the engine; they are left out.
Snapshot(reportId, uploadedAt, imp, ctr, views, sold, score, badge, promoted) ==
  [reportId |-> reportId, uploadedAt |-> uploadedAt, totalImpressions |-> imp,
   ctr |-> ctr, totalPageViews |-> views, quantitySold |-> sold,
   healthScore |-> score, healthBadge |-> badge, isPromoted |-> promoted]

TimelineEntry(itemId, title, snapshots) ==
  [itemId |-> itemId, title |-> title, snapshots |-> snapshots]

\* The change record built from prev and curr (the returned object literal).
ChangeBetweenNoYellowToRed(prev, curr) ==
  [impressionsChange |-> pctChange(prev.totalImpressions, curr.totalImpressions),
   ctrChange |-> pctChange(prev.ctr, curr.ctr),
   pageViewsChange |-> pctChange(prev.totalPageViews, curr.totalPageViews),
   soldChange |-> pctChange(prev.quantitySold, curr.quantitySold),
   healthScoreChange |-> Sub(curr.healthScore, prev.healthScore),
   prevHealthBadge |-> prev.healthBadge,
   currHealthBadge |-> curr.healthBadge,
   isNewIssue |-> prev.healthBadge # "red" /\ curr.healthBadge = "red",
   isDeclined |-> prev.healthBadge = "green" /\ curr.healthBadge # "green",
   prevSnap |-> prev,
   currSnap |-> curr]

ChangeBetween(prev, curr) ==
  [impressionsChange |-> pctChange(prev.totalImpressions, curr.totalImpressions),
   ctrChange |-> pctChange(prev.ctr, curr.ctr),
   pageViewsChange |-> pctChange(prev.totalPageViews, curr.totalPageViews),
   soldChange |-> pctChange(prev.quantitySold, curr.quantitySold),
   healthScoreChange |-> Sub(curr.healthScore, prev.healthScore),
   prevHealthBadge |-> prev.healthBadge,
   currHealthBadge |-> curr.healthBadge,
   isNewIssue |-> prev.healthBadge # "red" /\ curr.healthBadge = "red",
   isDeclined |-> \/ prev.healthBadge = "green" /\ curr.healthBadge # "green"
                  \/ prev.healthBadge = "yellow" /\ curr.healthBadge = "red",
   prevSnap |-> prev,
   currSnap |-> curr]

\* computeListingChange comparing the first two records instead of the last two.
ComputeListingChangeOldestTwo(timelineEntry) ==
  LET snaps == timelineEntry.snapshots
  IN  IF Len(snaps) < 2 THEN Null ELSE ChangeBetween(snaps[1], snaps[2])

\* Trends.computeListingChange(timelineEntry)
computeListingChange(timelineEntry) ==
  LET snaps == timelineEntry.snapshots
  IN  IF Len(snaps) < 2 THEN Null
      ELSE ChangeBetween(snaps[Len(snaps) - 1], snaps[Len(snaps)])

\* ---------------------------------- specification: computeListingChange
\* One item's history, its records at distinct upload times of 1..MaxSnaps;
\* computeListingChange is applied to it, and again after a record older than
\* the latest two is changed, added or removed.

\* Longest history of a timeline entry (the number of upload times).
MaxSnaps == 3

Badges == {"green", "yellow", "red"}

\* A record of the history: its healthScore is one its badge stands for.
ChgSnapshot(t, imp, badge) ==
  Snapshot(t, t, imp, Num(1), Num(4), Num(0),
           IF badge = "green" THEN Num(70) ELSE IF badge = "yellow" THEN Num(45) ELSE Num(10),
           badge, FALSE)

ChgImpressions == {Num(0), Num(50), Num(100)}

\* The history over the upload times T (a subset of 1..MaxSnaps), oldest first.
ChgHistory(T, imp, badge) ==
  LET at(k) == CHOOSE t \in T : Cardinality({u \in T : u < t}) = k - 1
  IN  [k \in 1..Cardinality(T) |-> ChgSnapshot(at(k), imp[at(k)], badge[at(k)])]

InitChg ==
  /\ op = "none"
  /\ \E T \in SUBSET (1..MaxSnaps) :
       \E imp \in [T -> ChgImpressions], badge \in [T -> Badges] :
         args = [timelineEntry |-> TimelineEntry("a", "card", ChgHistory(T, imp, badge)),
                 edit |-> "none"]
  /\ result = NotCalled

CallComputeListingChange ==
  /\ op = "none"
  /\ op' = "computeListingChange"
  /\ result' = computeListingChange(args.timelineEntry)
  /\ UNCHANGED args

\* The entry with `snaps` as its history, handed to computeListingChange.
Recompute(snaps, edit) ==
  /\ op = "computeListingChange"
  /\ args' = [timelineEntry |-> [args.timelineEntry EXCEPT !.snapshots = snaps],
              edit |-> edit]
  /\ result' = computeListingChange(args'.timelineEntry)
  /\ UNCHANGED op

ChangeEarlierRecord ==
  LET snaps == args.timelineEntry.snapshots
  IN  \E i \in 1..(Len(snaps) - 2), imp \in ChgImpressions, badge \in Badges :
        /\ ChgSnapshot(snaps[i].uploadedAt, imp, badge) # snaps[i]
        /\ Recompute([snaps EXCEPT ![i] = ChgSnapshot(snaps[i].uploadedAt, imp, badge)],
                     "changed")

AddEarlierRecord ==
  LET snaps == args.timelineEntry.snapshots
  IN  /\ Len(snaps) >= 2
      /\ \E t \in 1..MaxSnaps, imp \in ChgImpressions, badge \in Badges :
           LET before == {k \in 1..Len(snaps) : snaps[k].uploadedAt < t}
               p      == Cardinality(before)
           IN  /\ t < snaps[Len(snaps) - 1].uploadedAt
               /\ \A k \in 1..Len(snaps) : snaps[k].uploadedAt # t
               /\ Recompute(SubSeq(snaps, 1, p) \o <<ChgSnapshot(t, imp, badge)>>
                              \o SubSeq(snaps, p + 1, Len(snaps)), "added")

RemoveEarlierRecord ==
  LET snaps == args.timelineEntry.snapshots
  IN  \E i \in 1..(Len(snaps) - 2) :
        Recompute(SubSeq(snaps, 1, i - 1) \o SubSeq(snaps, i + 1, Len(snaps)), "removed")

NextChg ==
  \/ CallComputeListingChange
  \/ ChangeEarlierRecord
  \/ AddEarlierRecord
  \/ RemoveEarlierRecord

SpecChg == InitChg /\ [][NextChg]_vars

\* C4: with at least two records, isNewIssue iff the previous badge is not red
\* and the current one is red; isDeclined iff green -> non-green or yellow ->
\* red; impressions 100 -> 50 with green -> yellow gives isDeclined, not
\* isNewIssue, and impressionsChange = -50.
C4_ChangeFlags ==
  (op = "computeListingChange" /\ Len(args.timelineEntry.snapshots) >= 2) =>
    LET snaps == args.timelineEntry.snapshots
        prev  == snaps[Len(snaps) - 1]
        curr  == snaps[Len(snaps)]
        pb    == prev.healthBadge
        cb    == curr.healthBadge
    IN  /\ result # Null
        /\ result.isNewIssue <=> (pb # "red" /\ cb = "red")
        /\ result.isDeclined <=> \/ (pb = "green" /\ cb \in {"yellow", "red"})
                                 \/ (pb = "yellow" /\ cb = "red")
        /\ (/\ prev.totalImpressions = Num(100) /\ curr.totalImpressions = Num(50)
            /\ pb = "green" /\ cb = "yellow")
             => /\ result.isDeclined
                /\ ~result.isNewIssue
                /\ result.impressionsChange = Num(-50)

C4_Witness ==
  /\ op = "computeListingChange"
  /\ Len(args.timelineEntry.snapshots) = 2
  /\ args.timelineEntry.snapshots[1].totalImpressions = Num(100)
  /\ args.timelineEntry.snapshots[1].healthBadge = "green"
  /\ args.timelineEntry.snapshots[2].totalImpressions = Num(50)
  /\ args.timelineEntry.snapshots[2].healthBadge = "yellow"
  /\ result # Null
  /\ result.isDeclined /\ ~result.isNewIssue
  /\ result.impressionsChange = Num(-50)

\* The two latest records of a history of at least two.
LatestTwo(entry) ==
  SubSeq(entry.snapshots, Len(entry.snapshots) - 1, Len(entry.snapshots))

\* C5: computeListingChange is null for fewer than two records, and a call on
\* a history with the same two latest records returns the same result,
\* whatever was changed, added or removed before them.
C5_OnlyLatestTwo ==
  [][/\ (op' = "computeListingChange" /\ Len(args'.timelineEntry.snapshots) < 2)
          => result' = Null
     /\ (/\ op = "computeListingChange" /\ op' = "computeListingChange"
         /\ Len(args.timelineEntry.snapshots) >= 2
         /\ Len(args'.timelineEntry.snapshots) >= 2
         /\ LatestTwo(args'.timelineEntry) = LatestTwo(args.timelineEntry))
          => result' = result]_vars

\* A result computed after an older record was removed from a history whose
\* oldest record differs from the latest two.
C5_Witness ==
  /\ op = "computeListingChange"
  /\ args.edit = "removed"
  /\ Len(args.timelineEntry.snapshots) = 2
  /\ result # Null
  /\ result.prevSnap = args.timelineEntry.snapshots[1]
  /\ result.isDeclined

\* ------------------------------------- trends.js: buildListingTimeline

\* The (report, listing) pairs the two nested forEach loops push a record
\* for, in order: every listing with a truthy itemId.
TimelinePushes(reports) ==
  LET f[i \in 0..Len(reports)] ==
        IF i = 0 THEN <<>>
        ELSE f[i - 1] \o
             SelectSeq([k \in 1..Len(reports[i].data) |->
                          [report |-> reports[i], listing |-> reports[i].data[k]]],
                       LAMBDA p : p.listing.itemId # "")
  IN  f[Len(reports)]

\* timeline[listing.itemId].snapshots.push({...})
PushedSnapshot(p) ==
  Snapshot(p.report.id, p.report.uploadedAt,
           OrZero(p.listing.totalImpressions), OrZero(p.listing.ctr),
           OrZero(p.listing.totalPageViews), OrZero(p.listing.quantitySold),
           OrZero(p.listing.healthScore), OrStr(p.listing.healthBadge, "red"),
           p.listing.isPromoted)

\* The records of an entry left in the order they were pushed.
SnapshotsAsPushed(snaps) == snaps

\* entry.snapshots.sort((a, b) => new Date(a.uploadedAt) - new Date(b.uploadedAt))
SortSnapshots(snaps) ==
  SortBy(snaps, [i, j \in 1..Len(snaps) |-> snaps[i].uploadedAt - snaps[j].uploadedAt])

\* Trends.buildListingTimeline(reports): the entries in the order their keys
\* were inserted (the order of Object.values(timeline)).
buildListingTimeline(reports) ==
  LET pushes == TimelinePushes(reports)
      first  == SelectSeq([k \in 1..Len(pushes) |-> k],
                          LAMBDA k : \A j \in 1..(k - 1) :
                                       pushes[j].listing.itemId # pushes[k].listing.itemId)
      Entry(k) ==
        LET id   == pushes[k].listing.itemId
            mine == SelectSeq(pushes, LAMBDA p : p.listing.itemId = id)
        IN  TimelineEntry(id, pushes[k].listing.title,
                          SortSnapshots([n \in 1..Len(mine) |-> PushedSnapshot(mine[n])]))
  IN  [e \in 1..Len(first) |-> Entry(first[e])]

\* ------------------------- specification: timeline of two snapshots
\* Two reports that both list item "a", every metric of the listing a number
\* or null; the timeline is built and the change of each entry computed.

TlMetrics == {Null, Num(0), Num(5)}

TlListings ==
  {Listing("a", "card", imp, ctr, views, sold, Num(45), "yellow", FALSE) :
     imp \in TlMetrics, ctr \in TlMetrics, views \in TlMetrics, sold \in TlMetrics}

InitTl ==
  /\ op = "none"
  /\ \E l1 \in TlListings, l2 \in TlListings :
       LET r1 == Report("r1", 1, <<l1>>)
           r2 == Report("r2", 2, <<l2>>)
       IN  args \in {[reports |-> <<r1, r2>>], [reports |-> <<r2, r1>>]}
  /\ result = NotCalled

CallBuildListingTimeline ==
  /\ op = "none"
  /\ op' = "buildListingTimeline"
  /\ result' = buildListingTimeline(args.reports)
  /\ UNCHANGED args

\* computeListingChange(entry) for an entry of the timeline just built.
CallChangeOfEntry ==
  /\ op = "buildListingTimeline"
  /\ \E k \in 1..Len(result) :
       /\ op' = "computeListingChange"
       /\ args' = [reports |-> args.reports, timelineEntry |-> result[k]]
       /\ result' = computeListingChange(result[k])

NextTl == CallBuildListingTimeline \/ CallChangeOfEntry

SpecTl == InitTl /\ [][NextTl]_vars

\* The listing records of item id in the reports, oldest report first.
ListingsOfItem(reports, id) ==
  LET sorted == SortBy(reports, [i, j \in 1..Len(reports) |->
                                   reports[i].uploadedAt - reports[j].uploadedAt])
      pushes == TimelinePushes(sorted)
      mine   == SelectSeq(pushes, LAMBDA p : p.listing.itemId = id)
  IN  [n \in 1..Len(mine) |-> mine[n].listing]

\* C6: for an item present in two snapshots, a metric that is null in either
\* snapshot's listing record has a null percent change.
C6_NullMetricGivesNullChange ==
  op = "computeListingChange" =>
    LET ls == ListingsOfItem(args.reports, args.timelineEntry.itemId)
    IN  (Len(ls) = 2 /\ result # Null) =>
          /\ (ls[1].totalImpressions = Null \/ ls[2].totalImpressions = Null)
               => result.impressionsChange = Null
          /\ (ls[1].ctr = Null \/ ls[2].ctr = Null) => result.ctrChange = Null
          /\ (ls[1].totalPageViews = Null \/ ls[2].totalPageViews = Null)
               => result.pageViewsChange = Null
          /\ (ls[1].quantitySold = Null \/ ls[2].quantitySold = Null)
               => result.soldChange = Null

\* ----------------- trends.js: computeAggregateTrend, computeKPIComparison

\* array.reduce((a, b) => a + b, 0) over an array of numbers.
SumSeq(vals) ==
  LET f[i \in 0..Len(vals)] == IF i = 0 THEN Num(0) ELSE Add(f[i - 1], vals[i])
  IN  f[Len(vals)]

\* parseFloat(x.toFixed(2)): the nearest hundredth, the larger one on a tie.
ToFixed2(x) == Rat((200 * x.n + x.d) \div (2 * x.d), 100)

\* The rollup row of one report.  label, a display string cut from the
\* filename, is left out.
Rollup(report) ==
  LET data     == report.data
      imps     == [k \in 1..Len(data) |-> OrZero(data[k].totalImpressions)]
      promoted == SelectSeq(data, LAMBDA l : l.isPromoted)
      pimps    == [k \in 1..Len(promoted) |-> OrZero(promoted[k].totalImpressions)]
      ctrAll   == [k \in 1..Len(data) |-> data[k].ctr]
      ctrs     == SelectSeq(ctrAll, LAMBDA c : c # Null /\ c # Undefined)
      avgCTR   == IF Len(ctrs) # 0 THEN Div(SumSeq(ctrs), Num(Len(ctrs))) ELSE Num(0)
      Zone(b)  == Cardinality({k \in 1..Len(data) : OrStr(data[k].healthBadge, "red") = b})
  IN  [uploadedAt |-> report.uploadedAt,
       reportId |-> report.id,
       totalImpressions |-> SumSeq(imps),
       promotedImpressions |-> SumSeq(pimps),
       organicImpressions |-> Sub(SumSeq(imps), SumSeq(pimps)),
       avgCTR |-> ToFixed2(avgCTR),
       totalSold |-> SumSeq([k \in 1..Len(data) |-> OrZero(data[k].quantitySold)]),
       listingCount |-> Num(Len(data)),
       healthZones |-> [green |-> Zone("green"), yellow |-> Zone("yellow"), red |-> Zone("red")]]

\* computeAggregateTrend leaving out the reports without listings.
ComputeAggregateTrendSkipEmpty(reports) ==
  LET kept == SelectSeq(reports, LAMBDA r : Len(r.data) > 0)
  IN  [i \in 1..Len(kept) |-> Rollup(kept[i])]

\* Trends.computeAggregateTrend(reports): reports.map(...)
computeAggregateTrend(reports) == [i \in 1..Len(reports) |-> Rollup(reports[i])]

\* diff(a, b) of computeKPIComparison
KpiDiff(a, b) ==
  [prev |-> a, curr |-> b,
   pctChange |-> IF IsZero(a) THEN Null ELSE Mul(Div(Sub(b, a), Abs(a)), Num(100))]

\* Trends.computeKPIComparison(aggregateTrend)
computeKPIComparison(aggregateTrend) ==
  IF Len(aggregateTrend) < 2 THEN Null
  ELSE LET curr == aggregateTrend[Len(aggregateTrend)]
           prev == aggregateTrend[Len(aggregateTrend) - 1]
       IN  [totalImpressions |-> KpiDiff(prev.totalImpressions, curr.totalImpressions),
            avgCTR |-> KpiDiff(prev.avgCTR, curr.avgCTR),
            totalSold |-> KpiDiff(prev.totalSold, curr.totalSold),
            listingCount |-> KpiDiff(prev.listingCount, curr.listingCount)]

\* ------------------------------------ specification: aggregate trend
\* Up to MaxReports reports with distinct upload times, passed in any order;
\* the rollups are computed and then compared.

\* Most reports handed to computeAggregateTrend.
MaxReports == 3

KpiListing(imp, ctr, sold, promoted) ==
  Listing("a", "card", imp, ctr, Num(1), sold, Num(45), "yellow", promoted)

\* The listing arrays of the reports: none; one listing; a promoted listing
\* and one without data; a listing never shown; three listings whose CTRs
\* average to 5/3.
KpiData ==
  { <<>>,
    <<KpiListing(Num(100), Num(1), Num(0), FALSE)>>,
    <<KpiListing(Num(100), Num(2), Num(1), TRUE), KpiListing(Null, Null, Null, FALSE)>>,
    <<KpiListing(Num(0), Null, Num(0), FALSE)>>,
    <<KpiListing(Num(50), Num(1), Num(2), FALSE), KpiListing(Num(100), Num(2), Num(0), TRUE),
      KpiListing(Num(50), Num(2), Num(1), FALSE)>> }

\* The one-to-one maps of 1..k onto itself: the orders of k upload times.
Orders(k) == {f \in [1..k -> 1..k] : \A i, j \in 1..k : f[i] = f[j] => i = j}

InitKpi ==
  /\ op = "none"
  /\ \E k \in 0..MaxReports :
       \E t \in Orders(k), d \in [1..k -> KpiData] :
         args = [reports |-> [i \in 1..k |-> Report(<<"r", t[i]>>, t[i], d[i])]]
  /\ result = NotCalled

CallComputeAggregateTrend ==
  /\ op = "none"
  /\ op' = "computeAggregateTrend"
  /\ result' = computeAggregateTrend(args.reports)
  /\ UNCHANGED args

CallComputeKPIComparison ==
  /\ op = "computeAggregateTrend"
  /\ op' = "computeKPIComparison"
  /\ args' = [reports |-> args.reports, aggregateTrend |-> result]
  /\ result' = computeKPIComparison(result)

NextKpi == CallComputeAggregateTrend \/ CallComputeKPIComparison

SpecKpi == InitKpi /\ [][NextKpi]_vars

\* C7: computeKPIComparison is null for fewer than two rollups; otherwise each
\* KPI reports prev and curr of the last two rollups and a percent change
\* that follows pctChange's policy (0 when both are 0).
C7_KpiFollowsPctChange ==
  op = "computeKPIComparison" =>
    LET series == args.aggregateTrend
        n      == Len(series)
        Ok(d, a, b) == d.prev = a /\ d.curr = b /\ d.pctChange = pctChange(a, b)
    IN  IF n < 2 THEN result = Null
        ELSE /\ result # Null
             /\ Ok(result.totalImpressions, series[n - 1].totalImpressions, series[n].totalImpressions)
             /\ Ok(result.avgCTR, series[n - 1].avgCTR, series[n].avgCTR)
             /\ Ok(result.totalSold, series[n - 1].totalSold, series[n].totalSold)
             /\ Ok(result.listingCount, series[n - 1].listingCount, series[n].listingCount)

Chronological(rows) ==
  \A i, j \in 1..Len(rows) : i < j => rows[i].uploadedAt <= rows[j].uploadedAt

\* C8 as stated: one row per snapshot, in chronological order whatever the
\* order of the snapshots passed in.
C8_Original_AlwaysChronological ==
  op = "computeAggregateTrend" =>
    /\ Len(result) = Len(args.reports)
    /\ Chronological(result)

\* C8 (amended): one row per snapshot, row i being the rollup of the i-th
\* snapshot passed in; so the rows are chronological when the snapshots are.
C8_RowsInInputOrder ==
  op = "computeAggregateTrend" =>
    /\ Len(result) = Len(args.reports)
    /\ \A i \in 1..Len(result) :
         /\ result[i].reportId = args.reports[i].id
         /\ result[i].uploadedAt = args.reports[i].uploadedAt
         /\ result[i].listingCount = Num(Len(args.reports[i].data))
    /\ Chronological(args.reports) => Chronological(result)

\* Three snapshots passed newest first, the middle one without listings.
C8_Witness ==
  /\ op = "computeAggregateTrend"
  /\ Len(args.reports) = 3
  /\ args.reports[1].uploadedAt > args.reports[2].uploadedAt
  /\ args.reports[2].uploadedAt > args.reports[3].uploadedAt
  /\ Len(args.reports[2].data) = 0
  /\ Len(result) = 3
  /\ result[1].uploadedAt > result[3].uploadedAt

\* ------------------------------- analyzer.js: calcHealthScore, healthBadge

\* a >= b on numbers; false when an operand is NaN or undefined.
GreaterEq(a, b) == IsNum(a) /\ IsNum(b) /\ a.n * b.d >= b.n * a.d

\* Math.min(a, b) and Math.max(a, b): NaN when an operand is not a number.
MathMin(a, b) == IF ~IsNum(a) \/ ~IsNum(b) THEN NaN ELSE IF Less(b, a) THEN b ELSE a

MathMax(a, b) == IF ~IsNum(a) \/ ~IsNum(b) THEN NaN ELSE IF Less(a, b) THEN b ELSE a

\* Math.max(...vals): -Infinity for no arguments.
MaxOf(vals) ==
  LET f[i \in 0..Len(vals)] ==
        IF i = 0 THEN NegInfinity
        ELSE IF i = 1 THEN vals[1]
        ELSE MathMax(f[i - 1], vals[i])
  IN  f[Len(vals)]

\* Math.round(x): the nearest integer, the larger one on a tie; NaN for NaN.
MathRound(x) == IF IsNum(x) THEN Num((2 * x.n + x.d) \div (2 * x.d)) ELSE NaN

\* Math.log(x) to three decimals, at the arguments the model reaches:
\* impressions + 1 for impressions of 1, 9 and 99.
MathLog(x) ==
  CASE x = Num(2)   -> Rat(693, 1000)
    [] x = Num(10)  -> Rat(2303, 1000)
    [] x = Num(100) -> Rat(4605, 1000)

\* A listing as calcHealthScore reads it.  A field the record does not have
\* reads as undefined.
HealthListing(imp, ctr, top20Pct, organicChangePct) ==
  [totalImpressions |-> imp, ctr |-> ctr, top20Pct |-> top20Pct,
   nonSearchOrganicChangePct |-> organicChangePct]

\* The trend score (0-15) of calcHealthScore.
TrendScore(organicChange) ==
  IF organicChange # Null
  THEN IF Greater(organicChange, Num(0))
       THEN Add(Rat(15, 2), Mul(MathMin(Div(organicChange, Num(200)), Num(1)), Rat(15, 2)))
       ELSE Add(Rat(15, 2), Mul(MathMax(Div(organicChange, Num(200)), Num(-1)), Rat(15, 2)))
  ELSE Rat(15, 2)

\* Analyzer.calcHealthScore(listing, allListings)
calcHealthScore(listing, allListings) ==
  LET maxImpressions == MaxOf([k \in 1..Len(allListings) |-> OrZero(allListings[k].totalImpressions)])
      impressions == OrZero(listing.totalImpressions)
      impressionScore ==
        IF Greater(maxImpressions, Num(0)) /\ Greater(impressions, Num(0))
        THEN Mul(Div(MathLog(Add(impressions, Num(1))), MathLog(Add(maxImpressions, Num(1)))), Num(40))
        ELSE Num(0)
      ctr == OrZero(listing.ctr)
      ctrScore == Mul(MathMin(Div(ctr, Num(2)), Num(1)), Num(30))
      top20 == OrZero(listing.top20Pct)
      top20Score == Mul(MathMin(Div(top20, Num(100)), Num(1)), Num(15))
      trendScore == TrendScore(listing.nonSearchOrganicChangePct)
      total == Add(Add(Add(impressionScore, ctrScore), top20Score), trendScore)
  IN  MathRound(MathMin(Num(100), MathMax(Num(0), total)))

\* healthBadge with the cut points excluded from the higher badge.
HealthBadgeStrict(score) ==
  IF Greater(score, Num(60)) THEN "green"
  ELSE IF Greater(score, Num(30)) THEN "yellow"
  ELSE "red"

\* Analyzer.healthBadge(score)
healthBadge(score) ==
  IF GreaterEq(score, Num(60)) THEN "green"
  ELSE IF GreaterEq(score, Num(30)) THEN "yellow"
  ELSE "red"

\* eBayAnalytics.mapToListingShape, for one item of the analytics response:
\* the fields the scorer reads.  The returned object has no
\* nonSearchOrganicChangePct property.
mapToListingShape(item) ==
  HealthListing(OrZero(item.impressions), OrZero(item.ctr), OrZero(item.top20Pct), Undefined)

\* -------------------------------------- specification: health score
\* calcHealthScore on a listing of a parsed report (every metric a number or
\* null) or of the live-analytics mapping, against any allListings; then the
\* badge of the score, as enrichWithScores takes it.

ParsedListings ==
  {HealthListing(imp, ctr, top20, organic) :
     imp \in {Null, Num(0), Num(1), Num(9), Num(99)},
     ctr \in {Null, Num(-1), Num(1), Num(3)},
     top20 \in {Null, Num(50), Num(150)},
     organic \in {Null, Num(-300), Num(-100), Num(0), Num(100), Num(300)}}

LiveItems ==
  [impressions : {Undefined, Num(0), Num(9), Num(99)},
   ctr : {Undefined, Num(1), Num(3)},
   top20Pct : {Undefined, Num(50)}]

AllListingsChoices ==
  SeqsUpTo({HealthListing(imp, Null, Null, Null) : imp \in {Null, Num(9), Num(99)}}, MaxListings)

InitHealth ==
  /\ op = "none"
  /\ args \in [listing : ParsedListings \cup {mapToListingShape(i) : i \in LiveItems},
               allListings : AllListingsChoices]
  /\ result = NotCalled

CallCalcHealthScore ==
  /\ op = "none"
  /\ op' = "calcHealthScore"
  /\ result' = calcHealthScore(args.listing, args.allListings)
  /\ UNCHANGED args

\* healthBadge(calcHealthScore(l, listings)) of enrichWithScores
CallHealthBadgeOfScore ==
  /\ op = "calcHealthScore"
  /\ op' = "healthBadge"
  /\ args' = [score |-> result]
  /\ result' = healthBadge(result)

NextHealth == CallCalcHealthScore \/ CallHealthBadgeOfScore

SpecHealth == InitHealth /\ [][NextHealth]_vars

\* C9: calcHealthScore returns an integer in [0,100] for every listing whose
\* metrics are numbers, null or missing, and for every allListings.
C9_ScoreIsIntegerIn0To100 ==
  op = "calcHealthScore" =>
    /\ IsNum(result)
    /\ result.d = 1
    /\ result.n >= 0
    /\ result.n <= 100

\* ------------------------------------------ specification: healthBadge

\* The largest health score (the clamp of calcHealthScore).
MaxScore == 100

InitBadge ==
  /\ op = "none"
  /\ args \in [score : {Num(i) : i \in 0..MaxScore}]
  /\ result = NotCalled

CallHealthBadge ==
  /\ op = "none"
  /\ op' = "healthBadge"
  /\ result' = healthBadge(args.score)
  /\ UNCHANGED args

NextBadge == CallHealthBadge

SpecBadge == InitBadge /\ [][NextBadge]_vars

\* C10: healthBadge is red for score < 30, yellow for 30 <= score < 60 and
\* green for score >= 60; 29 is red, 30 yellow, 59 yellow, 60 green.
C10_BadgeCutPoints ==
  op = "healthBadge" =>
    LET score == args.score.n
    IN  /\ result \in {"red", "yellow", "green"}
        /\ result = "red" <=> score < 30
        /\ result = "yellow" <=> (30 <= score /\ score < 60)
        /\ result = "green" <=> score >= 60
        /\ score = 29 => result = "red"
        /\ score = 30 => result = "yellow"
        /\ score = 59 => result = "yellow"
        /\ score = 60 => result = "green"

C10_Witness ==
  /\ op = "healthBadge"
  /\ args.score = Num(60)
  /\ result = "green"

\* -------------------------------------------- analyzer.js: recommendation

\* The fields of a listing that getRecommendation reads.
RecListing(imp, ctr, views, sold) == [totalImpressions |-> imp, ctr |-> ctr, totalPageViews |-> views, quantitySold |-> sold]

\* (the em dash of the source's texts is written as a hyphen)
Recommendation(text, priority) == [text |-> text, priority |-> priority]

\* Analyzer.getRecommendation(listing), with the "sold" rule tried first.
GetRecommendationSoldFirst(listing) ==
  LET imp   == OrZero(listing.totalImpressions)
      ctr   == OrZero(listing.ctr)
      views == OrZero(listing.totalPageViews)
      sold  == OrZero(listing.quantitySold)
  IN  IF Greater(sold, Num(0))
        THEN Recommendation("Selling well - maintain strategy", "good")
      ELSE IF IsZero(imp)
        THEN Recommendation("No impressions - check listing visibility & categories", "low")
      ELSE IF Greater(imp, Num(50)) /\ IsZero(ctr)
        THEN Recommendation("High visibility but no clicks - review photos & title", "high")
      ELSE IF Greater(imp, Num(20)) /\ IsZero(ctr)
        THEN Recommendation("Getting seen but no clicks - improve title keywords & photos", "high")
      ELSE IF Greater(views, Num(0)) /\ IsZero(sold) /\ Greater(ctr, Num(0))
        THEN Recommendation("Getting clicks but no sales - review pricing & description", "medium")
      ELSE IF IsZero(ctr)
        THEN Recommendation("Low visibility - consider promoted listings or better keywords", "medium")
      ELSE Recommendation("Monitor performance - not enough data yet", "low")

\* Analyzer.getRecommendation(listing)
getRecommendation(listing) ==
  LET imp   == OrZero(listing.totalImpressions)
      ctr   == OrZero(listing.ctr)
      views == OrZero(listing.totalPageViews)
      sold  == OrZero(listing.quantitySold)
  IN  IF IsZero(imp)
        THEN Recommendation("No impressions - check listing visibility & categories", "low")
      ELSE IF Greater(imp, Num(50)) /\ IsZero(ctr)
        THEN Recommendation("High visibility but no clicks - review photos & title", "high")
      ELSE IF Greater(imp, Num(20)) /\ IsZero(ctr)
        THEN Recommendation("Getting seen but no clicks - improve title keywords & photos", "high")
      ELSE IF Greater(views, Num(0)) /\ IsZero(sold) /\ Greater(ctr, Num(0))
        THEN Recommendation("Getting clicks but no sales - review pricing & description", "medium")
      ELSE IF Greater(sold, Num(0))
        THEN Recommendation("Selling well - maintain strategy", "good")
      ELSE IF IsZero(ctr)
        THEN Recommendation("Low visibility - consider promoted listings or better keywords", "medium")
      ELSE Recommendation("Monitor performance - not enough data yet", "low")

\* Impressions on both sides of the two cut points, ctr as a percentage,
\* page views and units sold; null is the parser's "no data".
RecImpressions == {Null, Num(0), Num(20), Num(21), Num(50), Num(51)}

RecCtrs == {Null, Num(0), Rat(1, 2), Num(3)}

RecViews == {Null, Num(0), Num(4)}

RecSold == {Null, Num(0), Num(1)}

InitRec ==
  /\ op = "none"
  /\ args \in [listing : {RecListing(i, c, v, s) : i \in RecImpressions, c \in RecCtrs, v \in RecViews, s \in RecSold}]
  /\ result = NotCalled

CallGetRecommendation ==
  /\ op = "none"
  /\ op' = "getRecommendation"
  /\ result' = getRecommendation(args.listing)
  /\ UNCHANGED args

NextRec == CallGetRecommendation

SpecRec == InitRec /\ [][NextRec]_vars

\* A metric as the ladder reads it: null counts as 0.
NullAsZero(v) == IF v = Null THEN Num(0) ELSE v

\* The number (1..7) of the rule of the ladder a recommendation text belongs to.
RuleOfText(text) ==
  CASE text = "No impressions - check listing visibility & categories" -> 1
    [] text = "High visibility but no clicks - review photos & title" -> 2
    [] text = "Getting seen but no clicks - improve title keywords & photos" -> 3
    [] text = "Getting clicks but no sales - review pricing & description" -> 4
    [] text = "Selling well - maintain strategy" -> 5
    [] text = "Low visibility - consider promoted listings or better keywords" -> 6
    [] text = "Monitor performance - not enough data yet" -> 7
    [] OTHER -> 0

\* C11: getRecommendation returns, for every listing, the outcome of the first
\* rule that matches, in the order: impressions = 0 (low); impressions > 50 and
\* ctr = 0 (high); impressions > 20 and ctr = 0 (high); page views > 0, sold = 0
\* and ctr > 0 (medium); sold > 0 (good); ctr = 0 (medium); otherwise (low);
\* null metrics count as 0.
C11_RecommendationLadder ==
  op = "getRecommendation" =>
    LET imp   == NullAsZero(args.listing.totalImpressions)
        ctr   == NullAsZero(args.listing.ctr)
        views == NullAsZero(args.listing.totalPageViews)
        sold  == NullAsZero(args.listing.quantitySold)
        matches == [r \in 1..7 |->
          CASE r = 1 -> imp = Num(0)
            [] r = 2 -> Greater(imp, Num(50)) /\ ctr = Num(0)
            [] r = 3 -> Greater(imp, Num(20)) /\ ctr = Num(0)
            [] r = 4 -> Greater(views, Num(0)) /\ sold = Num(0) /\ Greater(ctr, Num(0))
            [] r = 5 -> Greater(sold, Num(0))
            [] r = 6 -> ctr = Num(0)
            [] r = 7 -> TRUE]
        first == CHOOSE r \in 1..7 : matches[r] /\ \A q \in 1..(r - 1) : ~matches[q]
        priorityOf == <<"low", "high", "high", "medium", "good", "medium", "low">>
    IN  /\ RuleOfText(result.text) = first
        /\ result.priority = priorityOf[first]

\* A listing that has sold, yet is given 'high' by an earlier rule.
C11_Witness ==
  /\ op = "getRecommendation"
  /\ args.listing.quantitySold = Num(1)
  /\ args.listing.totalImpressions = Num(51)
  /\ args.listing.ctr = Null
  /\ result.priority = "high"

\* ------------------------------------------- analyzer.js: KeywordAnalyzer

STOP_WORDS ==
  {"the", "a", "an", "and", "or", "but", "in", "on", "at", "to", "for",
   "of", "with", "from", "card", "cards", "nfl", "mlb", "nba", "panini",
   "topps", "prizm", "mosaic", "rookie", "rc"}

\* title.split(/[\s,\-\(\)\/\|]+/) on the titles of the model.
SplitTitle(title) ==
  CASE title = "PSA PSA 10"        -> <<"PSA", "PSA", "10">>
    [] title = "psa Card #252"     -> <<"psa", "Card", "#252">>
    [] title = "Mahomes - ... PSA" -> <<"Mahomes", "...", "PSA">>
    [] title = "Ohtani Topps RC"   -> <<"Ohtani", "Topps", "RC">>
    [] title = ""                  -> <<"">>

\* t.toLowerCase().trim() on the tokens of the model.
ToLowerCase(t) ==
  CASE t = "PSA"     -> "psa"
    [] t = "Card"    -> "card"
    [] t = "Mahomes" -> "mahomes"
    [] t = "Ohtani"  -> "ohtani"
    [] t = "Topps"   -> "topps"
    [] t = "RC"      -> "rc"
    [] OTHER         -> t

\* t.length > 0 && /[a-z0-9]/.test(t) on the tokens of the model.
HasAlnum(t) == t \notin {"", "..."}

\* t.replace(/^[^a-z0-9]+|[^a-z0-9]+$/g, '') on the tokens of the model.
StripNonAlnum(t) == IF t = "#252" THEN "252" ELSE t

\* KeywordAnalyzer.extractKeywords(title)
extractKeywords(title) ==
  IF title = "" THEN <<>>
  ELSE LET tokens == SplitTitle(title)
           lower  == [k \in 1..Len(tokens) |-> ToLowerCase(tokens[k])]
           alnum  == SelectSeq(lower, HasAlnum)
           strip  == [k \in 1..Len(alnum) |-> StripNonAlnum(alnum[k])]
           nonEmp == SelectSeq(strip, LAMBDA t : t # "")
       IN  SelectSeq(nonEmp, LAMBDA t : t \notin STOP_WORDS)

\* The entry map.set(kw, {...}) creates.
NewKeywordEntry(kw) ==
  [keyword |-> kw, appearances |-> 0, totalImpressions |-> Num(0), totalPageViews |-> Num(0),
   totalCTRWeighted |-> Num(0), totalCTRImpressions |-> Num(0), totalSold |-> Num(0),
   totalHealthScore |-> Num(0)]

\* The accumulation of one listing into the entry of one of its keywords.
AccumulateListing(entry, listing) ==
  LET imp    == OrZero(listing.totalImpressions)
      hasCtr == listing.ctr # Null /\ listing.ctr # Undefined
  IN  [keyword |-> entry.keyword,
       appearances |-> entry.appearances + 1,
       totalImpressions |-> Add(entry.totalImpressions, OrZero(listing.totalImpressions)),
       totalPageViews |-> Add(entry.totalPageViews, OrZero(listing.totalPageViews)),
       totalSold |-> Add(entry.totalSold, OrZero(listing.quantitySold)),
       totalHealthScore |-> Add(entry.totalHealthScore, OrZero(listing.healthScore)),
       totalCTRWeighted |-> IF hasCtr THEN Add(entry.totalCTRWeighted, Mul(listing.ctr, imp))
                            ELSE entry.totalCTRWeighted,
       totalCTRImpressions |-> IF hasCtr THEN Add(entry.totalCTRImpressions, imp)
                               ELSE entry.totalCTRImpressions]

\* map (a sequence of entries in insertion order) after the listing has been
\* accumulated into the entry of kw, created if the map has none.
UpsertKeyword(map, kw, listing) ==
  LET with == IF \E k \in 1..Len(map) : map[k].keyword = kw THEN map
              ELSE Append(map, NewKeywordEntry(kw))
  IN  [k \in 1..Len(with) |->
         IF with[k].keyword = kw THEN AccumulateListing(with[k], listing) ELSE with[k]]

\* The body of listings.forEach, without the `seen` set: a keyword is
\* accumulated at every occurrence in the title.
AddListingEveryOccurrence(map, listing) ==
  LET kws == extractKeywords(listing.title)
      f[i \in 0..Len(kws)] ==
        IF i = 0 THEN map ELSE UpsertKeyword(f[i - 1], kws[i], listing)
  IN  f[Len(kws)]

\* The body of listings.forEach in analyzeKeywords: each keyword of the
\* listing not yet in `seen` is accumulated.
AddListing(map, listing) ==
  LET kws == extractKeywords(listing.title)
      f[i \in 0..Len(kws)] ==
        IF i = 0 THEN [map |-> map, seen |-> {}]
        ELSE IF kws[i] \in f[i - 1].seen THEN f[i - 1]
        ELSE [map  |-> UpsertKeyword(f[i - 1].map, kws[i], listing),
              seen |-> f[i - 1].seen \cup {kws[i]}]
  IN  f[Len(kws)].map

\* The result row of one entry of the map.
KeywordResult(entry) ==
  [keyword |-> entry.keyword,
   appearances |-> entry.appearances,
   totalImpressions |-> entry.totalImpressions,
   avgImpressions |-> IF entry.appearances > 0
                      THEN Div(entry.totalImpressions, Num(entry.appearances)) ELSE Num(0),
   totalPageViews |-> entry.totalPageViews,
   avgCTR |-> IF Greater(entry.totalCTRImpressions, Num(0))
              THEN Div(entry.totalCTRWeighted, entry.totalCTRImpressions) ELSE Num(0),
   totalSold |-> entry.totalSold,
   conversionRate |-> IF Greater(entry.totalPageViews, Num(0))
                      THEN Mul(Div(entry.totalSold, entry.totalPageViews), Num(100)) ELSE Null,
   avgHealthScore |-> IF entry.appearances > 0
                      THEN Div(entry.totalHealthScore, Num(entry.appearances)) ELSE Num(0)]

\* KeywordAnalyzer.analyzeKeywords(listings)
analyzeKeywords(listings) ==
  IF Len(listings) = 0 THEN <<>>
  ELSE LET f[i \in 0..Len(listings)] ==
             IF i = 0 THEN <<>> ELSE AddListing(f[i - 1], listings[i])
           map     == f[Len(listings)]
           results == [k \in 1..Len(map) |-> KeywordResult(map[k])]
       IN  SortBy(results, [i, j \in 1..Len(results) |->
                              SignOfDiff(results[j].totalImpressions, results[i].totalImpressions)])

\* KeywordAnalyzer.getKeywordTrends(keywords)
getKeywordTrends(keywords) ==
  IF Len(keywords) = 0 THEN <<>>
  ELSE LET sorted == SortBy(keywords, [i, j \in 1..Len(keywords) |->
                              SignOfDiff(keywords[j].avgImpressions, keywords[i].avgImpressions)])
           mid    == sorted[(Len(sorted) \div 2) + 1].avgImpressions
           Trend(kw) ==
             LET changePercent == IF Greater(mid, Num(0))
                                  THEN Mul(Div(Sub(kw.avgImpressions, mid), mid), Num(100))
                                  ELSE Num(0)
             IN  [keyword |-> kw.keyword, appearances |-> kw.appearances,
                  totalImpressions |-> kw.totalImpressions, avgImpressions |-> kw.avgImpressions,
                  totalPageViews |-> kw.totalPageViews, avgCTR |-> kw.avgCTR,
                  totalSold |-> kw.totalSold, conversionRate |-> kw.conversionRate,
                  avgHealthScore |-> kw.avgHealthScore,
                  changePercent |-> changePercent,
                  trendDirection |-> IF Greater(changePercent, Num(20)) THEN "up"
                                     ELSE IF Less(changePercent, Num(-20)) THEN "down"
                                     ELSE "stable"]
           trends == [k \in 1..Len(keywords) |-> Trend(keywords[k])]
       IN  SortBy(trends, [i, j \in 1..Len(trends) |->
                             SignOfDiff(trends[j].changePercent, trends[i].changePercent)])

\* ------------------------------------- specification: keyword analysis

\* A title without tokens, one that repeats a token, one with a stop word
\* and a token wrapped in punctuation, one with a token of punctuation only.
KwTitles == {"", "PSA PSA 10", "psa Card #252", "Mahomes - ... PSA"}

\* A listing without data and not yet scored (healthScore absent), and one
\* with data.
KwListings ==
  {Listing("a", title, imp, Null, Num(0), Num(0), Undefined, "red", FALSE) :
     title \in KwTitles, imp \in {Null, Num(10), Num(30)}}
  \cup
  {Listing("a", title, imp, Num(2), Num(2), Num(1), Num(40), "yellow", FALSE) :
     title \in KwTitles, imp \in {Null, Num(10), Num(30)}}

InitKw ==
  /\ op = "none"
  /\ args \in [listings : SeqsUpTo(KwListings, MaxListings)]
  /\ result = NotCalled

CallAnalyzeKeywords ==
  /\ op = "none"
  /\ op' = "analyzeKeywords"
  /\ result' = analyzeKeywords(args.listings)
  /\ UNCHANGED args

\* getKeywordTrends is applied to the output of analyzeKeywords.
CallGetKeywordTrends ==
  /\ op = "analyzeKeywords"
  /\ op' = "getKeywordTrends"
  /\ result' = getKeywordTrends(result)
  /\ UNCHANGED args

NextKw == CallAnalyzeKeywords \/ CallGetKeywordTrends

SpecKw == InitKw /\ [][NextKw]_vars

\* The positions of the listings whose extracted keyword list contains kw.
ListingsWithKeyword(listings, kw) ==
  {i \in 1..Len(listings) : \E k \in 1..Len(extractKeywords(listings[i].title)) :
                              extractKeywords(listings[i].title)[k] = kw}

\* The sum of a metric (null as 0) over the listings at the positions I.
MetricSum(listings, I, metric) ==
  SumSeq([i \in 1..Len(listings) |->
            IF i \in I THEN NullAsZero(listings[i][metric]) ELSE Num(0)])

\* C12: in analyzeKeywords(listings) every keyword of some listing has exactly
\* one row; the row's appearances is the number of listings whose keyword list
\* contains the keyword (at most the number of listings), and totalImpressions,
\* totalPageViews and totalSold are the sums of the metric over those listings,
\* each listing counted once.
C12_KeywordOncePerListing ==
  op = "analyzeKeywords" =>
    /\ \A k \in 1..Len(result) :
         LET I == ListingsWithKeyword(args.listings, result[k].keyword)
         IN  /\ result[k].appearances = Cardinality(I)
             /\ result[k].appearances >= 1
             /\ result[k].appearances <= Len(args.listings)
             /\ result[k].totalImpressions = MetricSum(args.listings, I, "totalImpressions")
             /\ result[k].totalPageViews = MetricSum(args.listings, I, "totalPageViews")
             /\ result[k].totalSold = MetricSum(args.listings, I, "quantitySold")
    /\ \A j, k \in 1..Len(result) : result[j].keyword = result[k].keyword => j = k
    /\ \A i \in 1..Len(args.listings) :
         \A n \in 1..Len(extractKeywords(args.listings[i].title)) :
           \E k \in 1..Len(result) :
             result[k].keyword = extractKeywords(args.listings[i].title)[n]

\* Two listings, one of them titled 'PSA PSA 10': 'psa' has appearances 2 and
\* the impressions of each listing once.
C12_Witness ==
  /\ op = "analyzeKeywords"
  /\ Len(args.listings) = 2
  /\ args.listings[1].title = "PSA PSA 10"
  /\ args.listings[1].totalImpressions = Num(10)
  /\ args.listings[2].title = "psa Card #252"
  /\ args.listings[2].totalImpressions = Num(30)
  /\ \E k \in 1..Len(result) :
       /\ result[k].keyword = "psa"
       /\ result[k].appearances = 2
       /\ result[k].totalImpressions = Num(40)

\* ------------------------------------------------------------- cogs.js

SETTINGS_VERSION == 3

\* A material of the settings, as calcListing reads it (name, packCount and
\* packPrice are display fields).  methods is the array of shipping methods;
\* a material without the property (one added through the settings panel) and
\* one whose array is empty take the same branch of calcListing, and both are
\* the empty sequence here.
Material(id, unitCost, includePerSale, methods) == [id |-> id, unitCost |-> unitCost, includePerSale |-> includePerSale, methods |-> methods]

ShippingMethod(label, postage) == [label |-> label, postage |-> postage]

\* COGS.DEFAULTS; a record without a _version property has version |-> 0.
DEFAULTS ==
  [ebayFeeRate |-> Rat(1325, 10000),
   shipping |-> [ese |-> ShippingMethod("eBay Std Envelope", Rat(103, 100)),
                 ga  |-> ShippingMethod("Ground Advantage", Rat(508, 100)),
                 threshold |-> Num(20)],
   materials |-> << Material("sleeve",  Rat(2, 100),  TRUE,  <<"ese", "ga">>),
                    Material("topldr",  Rat(17, 100), TRUE,  <<"ese", "ga">>),
                    Material("teambag", Rat(5, 100),  TRUE,  <<"ese", "ga">>),
                    Material("env",     Rat(23, 100), TRUE,  <<"ese">>),
                    Material("bubble",  Rat(20, 100), TRUE,  <<"ga">>),
                    Material("hobb",    Rat(17, 100), FALSE, <<"ese", "ga">>),
                    Material("graded",  Rat(3, 100),  FALSE, <<"ese", "ga">>) >>,
   version |-> 0]

\* The exception of reading a property of undefined.
TypeError == [t |-> "TypeError", n |-> 0, d |-> 1]

\* parseFloat(x.toFixed(digits)) with scale = 10^digits: the nearest multiple
\* of 1/scale, the one of larger magnitude on a tie.
ToFixed(x, scale) ==
  IF ~IsNum(x) THEN NaN
  ELSE LET a == AbsInt(x.n) * scale
           q == (a \div x.d) + (IF 2 * (a % x.d) >= x.d THEN 1 ELSE 0)
       IN  Rat(IF x.n < 0 THEN -q ELSE q, scale)

\* m.methods.includes(method)
Includes(methods, method) == \E k \in 1..Len(methods) : methods[k] = method

\* The filter of calcListing that treats a material without methods as
\* applying to no method.
MaterialAppliesStrict(mat, method) ==
  mat.includePerSale /\ Includes(mat.methods, method)

\* The filter callback of calcListing: does the material count for a sale
\* shipped by this method?
MaterialApplies(mat, method) ==
  IF ~mat.includePerSale THEN FALSE
  ELSE IF Len(mat.methods) > 0 THEN Includes(mat.methods, method)
  ELSE TRUE

\* listing.quantity || 1
QtyOf(quantity) == IF IsNum(quantity) /\ quantity.n # 0 THEN quantity ELSE Num(1)

\* The shipping method calcListing selects; "" is a listing without override.
MethodOf(listing, settings) ==
  LET price      == OrZero(listing.price)
      autoMethod == IF Greater(price, settings.shipping.threshold) THEN "ga" ELSE "ese"
  IN  OrStr(listing.shippingOverride, autoMethod)

\* margin of calcListing without the test of the price.
MarginUnguarded(netProfit, price) == Mul(Div(netProfit, price), Num(100))

\* margin of calcListing: price > 0 ? (netProfit / price) * 100 : 0
Margin(netProfit, price) ==
  IF Greater(price, Num(0)) THEN Mul(Div(netProfit, price), Num(100)) ELSE Num(0)

\* COGS.calcListing(listing, settings).  settings.shipping[method] is
\* undefined for a method the table lacks, and reading its postage throws.
calcListing(listing, settings) ==
  LET price  == OrZero(listing.price)
      qty    == QtyOf(listing.quantity)
      method == MethodOf(listing, settings)
  IN  IF method \notin {"ese", "ga"} THEN TypeError
      ELSE
      LET ship     == settings.shipping[method]
          ebayFee  == Mul(price, settings.ebayFeeRate)
          applied  == SelectSeq(settings.materials, LAMBDA mat : MaterialApplies(mat, method))
          materialCost == SumSeq([k \in 1..Len(applied) |-> OrZero(applied[k].unitCost)])
          postage   == OrZero(ship.postage)
          cogs      == Add(Add(ebayFee, materialCost), postage)
          netProfit == Sub(price, cogs)
          margin    == Margin(netProfit, price)
      IN  [shippingMethod |-> method,
           shippingLabel |-> ship.label,
           shippingCost |-> postage,
           ebayFee |-> ToFixed(ebayFee, 10000),
           materialCost |-> ToFixed(materialCost, 10000),
           cogs |-> ToFixed(cogs, 10000),
           netProfit |-> ToFixed(netProfit, 10000),
           margin |-> ToFixed(margin, 100),
           qty |-> qty,
           totalNetProfit |-> ToFixed(Mul(netProfit, qty), 10000),
           totalCogs |-> ToFixed(Mul(cogs, qty), 10000)]

\* COGS.calcPortfolio(listings, settings); an exception of calcListing
\* leaves the loop and the function.
calcPortfolio(listings, settings) ==
  LET results == [k \in 1..Len(listings) |-> calcListing(listings[k], settings)]
      qtys    == [k \in 1..Len(listings) |-> QtyOf(listings[k].quantity)]
  IN  IF \E k \in 1..Len(listings) : results[k] = TypeError THEN TypeError
      ELSE
      LET totalValue == SumSeq([k \in 1..Len(listings) |->
                                  Mul(OrZero(listings[k].price), qtys[k])])
          totalCogs  == SumSeq([k \in 1..Len(listings) |-> Mul(results[k].cogs, qtys[k])])
          totalNetProfit == SumSeq([k \in 1..Len(listings) |->
                                      Mul(results[k].netProfit, qtys[k])])
          totalQty   == SumSeq(qtys)
          avgMargin  == IF Greater(totalValue, Num(0))
                        THEN Mul(Div(totalNetProfit, totalValue), Num(100)) ELSE Num(0)
      IN  [totalValue |-> ToFixed(totalValue, 100),
           totalCogs |-> ToFixed(totalCogs, 100),
           totalNetProfit |-> ToFixed(totalNetProfit, 100),
           avgMargin |-> ToFixed(avgMargin, 100),
           totalQty |-> totalQty,
           listingCount |-> Len(listings)]

\* ------------------------------------------ specification: calculator

\* Prices on both sides of the default threshold and at it; a listing
\* without a price.
CogsPrices == {Null, Num(0), Num(5), Num(20), Num(25)}

\* Quantities; undefined is a listing without the property.
CogsQuantities == {Undefined, Num(0), Num(1), Num(3)}

\* Overrides; "" is a listing without one, "ground" the override of the
\* documented example.
CogsOverrides == {"", "ese", "ga", "ground"}

CogsListing(price, quantity, shippingOverride) == [price |-> price, quantity |-> quantity, shippingOverride |-> shippingOverride]

\* The defaults; the defaults with a material added through the settings
\* panel (no methods property) and included per sale; and settings with
\* another fee rate and threshold, a material whose methods array is empty and
\* one without a unit cost.
CogsSettings ==
  { DEFAULTS,
    [DEFAULTS EXCEPT !.materials = Append(@, Material("mat_1", Rat(1, 10), TRUE, <<>>)),
                     !.version = SETTINGS_VERSION],
    [DEFAULTS EXCEPT !.ebayFeeRate = Rat(1, 10),
                     !.shipping.threshold = Num(5),
                     !.materials = << Material("sleeve", Rat(2, 100), TRUE, <<"ese", "ga">>),
                                      Material("bubble", Rat(20, 100), TRUE, <<"ga">>),
                                      Material("mat_2", Rat(1, 4), TRUE, <<>>),
                                      Material("mat_3", Null, TRUE, <<"ese">>),
                                      Material("mat_4", Rat(1, 2), FALSE, <<>>) >>,
                     !.version = SETTINGS_VERSION] }

\* The listings of a portfolio.
PortfolioListings ==
  {CogsListing(p, q, o) : p \in {Num(0), Num(5), Num(25)}, q \in {Undefined, Num(0), Num(3)},
                          o \in {"", "ga"}}

InitCogs ==
  /\ op = "none"
  /\ \/ args \in [listing : {CogsListing(p, q, o) : p \in CogsPrices, q \in CogsQuantities,
                                                   o \in CogsOverrides},
                   settings : CogsSettings]
     \/ args \in [listings : SeqsUpTo(PortfolioListings, MaxListings), settings : CogsSettings]
  /\ result = NotCalled

CallCalcListing ==
  /\ op = "none"
  /\ DOMAIN args = {"listing", "settings"}
  /\ op' = "calcListing"
  /\ result' = calcListing(args.listing, args.settings)
  /\ UNCHANGED args

CallCalcPortfolio ==
  /\ op = "none"
  /\ DOMAIN args = {"listings", "settings"}
  /\ op' = "calcPortfolio"
  /\ result' = calcPortfolio(args.listings, args.settings)
  /\ UNCHANGED args

NextCogs == CallCalcListing \/ CallCalcPortfolio

SpecCogs == InitCogs /\ [][NextCogs]_vars

\* ---------------------------------------------- analyzer.js: aggregates

\* A listing with the two change columns computeTrending reads.
AggListing(title, imp, ctr, views, sold, promoted, nonSearchChg, top20Chg) == [itemId |-> "a", title |-> title, totalImpressions |-> imp, ctr |-> ctr, totalPageViews |-> views, quantitySold |-> sold, healthScore |-> Num(45), healthBadge |-> "yellow", isPromoted |-> promoted, nonSearchOrganicChangePct |-> nonSearchChg, top20OrganicChangePct |-> top20Chg]

\* Analyzer.detectSport(title) on the titles of the model: the first sport of
\* SPORT_PATTERNS with a pattern that matches (/\bmahomes\b/i, /\bohtani\b/i).
detectSport(title) ==
  CASE title = "Mahomes - ... PSA" -> "Football"
    [] title = "Ohtani Topps RC"   -> "Baseball"
    [] OTHER                       -> "Other"

\* The mean of an array without the test of its length.
MeanUnguarded(vals) == Div(SumSeq(vals), Num(Len(vals)))

\* vals.length ? vals.reduce((a, b) => a + b, 0) / vals.length : 0
MeanOrZero(vals) ==
  IF Len(vals) # 0 THEN Div(SumSeq(vals), Num(Len(vals))) ELSE Num(0)

\* arr.map(l => l.ctr).filter(c => c !== null)
CtrsOf(arr) ==
  SelectSeq([k \in 1..Len(arr) |-> arr[k].ctr], LAMBDA c : c # Null)

\* arr.reduce((s, l) => s + (l[metric] || 0), 0)
SumMetric(arr, metric) == SumSeq([k \in 1..Len(arr) |-> OrZero(arr[k][metric])])

\* Analyzer.computeKPIs(listings)
computeKPIs(listings) ==
  [total |-> Len(listings),
   totalImpressions |-> SumMetric(listings, "totalImpressions"),
   totalSold |-> SumMetric(listings, "quantitySold"),
   avgCTR |-> MeanOrZero(CtrsOf(listings)),
   deadListings |-> Len(SelectSeq(listings, LAMBDA l : IsZero(OrZero(l.totalPageViews))))]

\* Analyzer.computePromotedVsOrganic(listings)
computePromotedVsOrganic(listings) ==
  LET promoted == SelectSeq(listings, LAMBDA l : l.isPromoted)
      organic  == SelectSeq(listings, LAMBDA l : ~l.isPromoted)
  IN  [promotedCount |-> Len(promoted),
       organicCount |-> Len(organic),
       promotedImpressions |-> SumMetric(promoted, "totalImpressions"),
       organicImpressions |-> SumMetric(organic, "totalImpressions"),
       promotedCTR |-> MeanOrZero(CtrsOf(promoted)),
       organicCTR |-> MeanOrZero(CtrsOf(organic)),
       promotedPageViews |-> SumMetric(promoted, "totalPageViews"),
       organicPageViews |-> SumMetric(organic, "totalPageViews")]

\* getChange averaging both columns, a null one counted as 0.
GetChangeNullAsZero(l) ==
  Div(Add(OrZero(l.nonSearchOrganicChangePct), OrZero(l.top20OrganicChangePct)), Num(2))

\* getChange of computeTrending: the mean of the change columns that are not null.
GetChange(l) ==
  MeanOrZero(SelectSeq(<<l.nonSearchOrganicChangePct, l.top20OrganicChangePct>>,
                       LAMBDA v : v # Null))

\* arr.slice(0, 10) and arr.slice(-10)
SliceFirst10(arr) == SubSeq(arr, 1, IF Len(arr) < 10 THEN Len(arr) ELSE 10)

SliceLast10(arr) == SubSeq(arr, IF Len(arr) < 10 THEN 1 ELSE Len(arr) - 9, Len(arr))

\* arr.reverse()
Reverse(arr) == [k \in 1..Len(arr) |-> arr[Len(arr) + 1 - k]]

\* Analyzer.computeTrending(listings); the returned getChange function is
\* left out.
computeTrending(listings) ==
  LET withChange == SelectSeq(listings, LAMBDA l : l.nonSearchOrganicChangePct # Null
                                                   \/ l.top20OrganicChangePct # Null)
      sorted == SortBy(withChange, [i, j \in 1..Len(withChange) |->
                         SignOfDiff(GetChange(withChange[j]), GetChange(withChange[i]))])
  IN  [trendingUp |-> SelectSeq(SliceFirst10(sorted), LAMBDA l : Greater(GetChange(l), Num(0))),
       trendingDown |-> Reverse(SelectSeq(SliceLast10(sorted),
                                          LAMBDA l : Less(GetChange(l), Num(0))))]

\* Analyzer.computeSportBreakdown(listings): the breakdown object as a
\* function of the sports that occur.
computeSportBreakdown(listings) ==
  LET sports == {detectSport(OrStr(listings[k].title, "")) : k \in 1..Len(listings)}
      Of(sport) == SelectSeq(listings, LAMBDA l : detectSport(OrStr(l.title, "")) = sport)
  IN  [sport \in sports |->
         [count |-> Len(Of(sport)),
          totalImpressions |-> SumMetric(Of(sport), "totalImpressions"),
          totalSold |-> SumMetric(Of(sport), "quantitySold")]]

\* prioOrder[priority] ?? 4
PrioOrder(priority) ==
  CASE priority = "high"   -> 0
    [] priority = "medium" -> 1
    [] priority = "low"    -> 2
    [] priority = "good"   -> 3
    [] OTHER               -> 4

\* computePriorityList comparing the impressions before the priority.
ComputePriorityListImpressionsFirst(listings) ==
  LET rows == [k \in 1..Len(listings) |->
                 [listing |-> listings[k], _rec |-> getRecommendation(listings[k])]]
      Cmp(a, b) ==
        IF OrZero(a.listing.totalImpressions) # OrZero(b.listing.totalImpressions)
        THEN SignOfDiff(OrZero(b.listing.totalImpressions), OrZero(a.listing.totalImpressions))
        ELSE PrioOrder(a._rec.priority) - PrioOrder(b._rec.priority)
  IN  SortBy(rows, [i, j \in 1..Len(rows) |-> Cmp(rows[i], rows[j])])

\* Analyzer.computePriorityList(listings): each row is the listing (here the
\* field listing, in the source its spread fields) with its recommendation.
computePriorityList(listings) ==
  LET rows == [k \in 1..Len(listings) |->
                 [listing |-> listings[k], _rec |-> getRecommendation(listings[k])]]
      Cmp(a, b) ==
        IF PrioOrder(a._rec.priority) # PrioOrder(b._rec.priority)
        THEN PrioOrder(a._rec.priority) - PrioOrder(b._rec.priority)
        ELSE SignOfDiff(OrZero(b.listing.totalImpressions), OrZero(a.listing.totalImpressions))
  IN  SortBy(rows, [i, j \in 1..Len(rows) |-> Cmp(rows[i], rows[j])])

\* ------------------------- specification: the ratios and the aggregates

\* A promoted listing with sales; a listing without data; a listing seen
\* but not clicked, trending down; a listing with one change column; a
\* listing never shown, with an empty title.
AggListings ==
  { AggListing("PSA PSA 10", Num(100), Num(2), Num(4), Num(1), TRUE, Num(50), Null),
    AggListing("psa Card #252", Null, Null, Null, Null, FALSE, Null, Null),
    AggListing("Mahomes - ... PSA", Num(30), Num(0), Num(0), Num(0), FALSE, Num(-40), Num(20)),
    AggListing("Ohtani Topps RC", Num(60), Rat(1, 2), Num(2), Num(0), TRUE, Null, Num(-10)),
    AggListing("", Num(0), Null, Num(0), Num(0), FALSE, Num(0), Num(0)) }

\* No report, one report, or an older and a newer report.
CoreReports ==
  {<<>>} \cup {<<Report("r1", 1, d)>> : d \in KpiData}
         \cup {<<Report("r1", 1, d1), Report("r2", 2, d2)>> : d1 \in KpiData, d2 \in KpiData}

InitCore ==
  /\ op = "none"
  /\ \/ args \in [a : PctInputs, b : PctInputs]
     \/ args \in [report1 : {Null} \cup {Report("r1", 1, d) : d \in KpiData},
                  report2 : {Null} \cup {Report("r2", 2, d) : d \in KpiData}]
     \/ args \in [reports : CoreReports]
     \/ args \in [listings : SeqsUpTo(AggListings, MaxListings)]
     \/ args \in [listing : {CogsListing(p, q, o) : p \in CogsPrices, q \in CogsQuantities,
                                                   o \in CogsOverrides},
                  settings : CogsSettings]
     \/ args \in [listings : SeqsUpTo(PortfolioListings, MaxListings), settings : CogsSettings]
  /\ result = NotCalled

CorePctChange == DOMAIN args = {"a", "b"} /\ CallPctChange

CoreBuildComparison == DOMAIN args = {"report1", "report2"} /\ CallBuildComparison

CoreComputeAggregateTrend == DOMAIN args = {"reports"} /\ CallComputeAggregateTrend

CoreBuildListingTimeline == DOMAIN args = {"reports"} /\ CallBuildListingTimeline

CoreAnalyzeKeywords == DOMAIN args = {"listings"} /\ CallAnalyzeKeywords

CallComputeKPIs ==
  /\ op = "none"
  /\ DOMAIN args = {"listings"}
  /\ op' = "computeKPIs"
  /\ result' = computeKPIs(args.listings)
  /\ UNCHANGED args

CallComputePromotedVsOrganic ==
  /\ op = "none"
  /\ DOMAIN args = {"listings"}
  /\ op' = "computePromotedVsOrganic"
  /\ result' = computePromotedVsOrganic(args.listings)
  /\ UNCHANGED args

CallComputeTrending ==
  /\ op = "none"
  /\ DOMAIN args = {"listings"}
  /\ op' = "computeTrending"
  /\ result' = computeTrending(args.listings)
  /\ UNCHANGED args

CallComputeSportBreakdown ==
  /\ op = "none"
  /\ DOMAIN args = {"listings"}
  /\ op' = "computeSportBreakdown"
  /\ result' = computeSportBreakdown(args.listings)
  /\ UNCHANGED args

CallComputePriorityList ==
  /\ op = "none"
  /\ DOMAIN args = {"listings"}
  /\ op' = "computePriorityList"
  /\ result' = computePriorityList(args.listings)
  /\ UNCHANGED args

NextCore ==
  \/ CorePctChange
  \/ CoreBuildComparison
  \/ CoreComputeAggregateTrend
  \/ CallComputeKPIComparison
  \/ CoreBuildListingTimeline
  \/ CoreAnalyzeKeywords
  \/ CallGetKeywordTrends
  \/ CallComputeKPIs
  \/ CallComputePromotedVsOrganic
  \/ CallComputeTrending
  \/ CallComputeSportBreakdown
  \/ CallComputePriorityList
  \/ CallCalcListing
  \/ CallCalcPortfolio

SpecCore == InitCore /\ [][NextCore]_vars

\* A finite number (the model has no Infinity: a division by 0 gives NaN).
IsFinite(v) == IsNum(v)

FiniteOrNull(v) == IsNum(v) \/ v = Null

\* The median avgImpressions getKeywordTrends compares with: the element at
\* position floor(n / 2) of the rows in descending order.
MedianAvgImpressions(rows) ==
  LET desc == SortBy(rows, [i, j \in 1..Len(rows) |->
                              SignOfDiff(rows[j].avgImpressions, rows[i].avgImpressions)])
  IN  desc[(Len(rows) \div 2) + 1].avgImpressions

\* C13: no ratio the core returns is NaN or infinite: pctChange and the
\* percent changes of computeKPIComparison and buildComparison are a finite
\* number or null; margin and avgMargin are finite, and 0 when the price or the
\* total value is 0; conversionRate is finite, and null when the page views are
\* 0; avgCTR and avgImpressions of analyzeKeywords and avgCTR of computeKPIs are
\* finite; changePercent is finite, and 0 when the median is 0.
C13_NoRatioLeaksNaN ==
  /\ op = "pctChange" => FiniteOrNull(result)
  /\ op = "computeKPIComparison" /\ result # Null =>
       /\ FiniteOrNull(result.totalImpressions.pctChange)
       /\ FiniteOrNull(result.avgCTR.pctChange)
       /\ FiniteOrNull(result.totalSold.pctChange)
  /\ op = "buildComparison" =>
       \A k \in 1..Len(result) : FiniteOrNull(result[k].impressionsChange)
  /\ op = "calcListing" /\ result # TypeError =>
       /\ IsFinite(result.margin)
       /\ NullAsZero(args.listing.price) = Num(0) => result.margin = Num(0)
  /\ op = "calcPortfolio" /\ result # TypeError =>
       /\ IsFinite(result.avgMargin)
       /\ result.totalValue = Num(0) => result.avgMargin = Num(0)
  /\ op = "analyzeKeywords" =>
       \A k \in 1..Len(result) :
         /\ IsFinite(result[k].avgCTR)
         /\ IsFinite(result[k].avgImpressions)
         /\ FiniteOrNull(result[k].conversionRate)
         /\ result[k].totalPageViews = Num(0) => result[k].conversionRate = Null
  /\ op = "getKeywordTrends" =>
       \A k \in 1..Len(result) :
         /\ IsFinite(result[k].changePercent)
         /\ MedianAvgImpressions(result) = Num(0) => result[k].changePercent = Num(0)
  /\ op = "computeKPIs" => IsFinite(result.avgCTR)

\* calcListing of a listing priced 0 returns margin 0.
C13_Witness ==
  /\ op = "calcListing"
  /\ args.listing.price = Num(0)
  /\ result # TypeError
  /\ result.margin = Num(0)
  /\ result.netProfit # Num(0)

\* C14: on the empty collection computeKPIs and computePromotedVsOrganic
\* return all zeros, computeTrending two empty lists, computeSportBreakdown an
\* empty breakdown, computePriorityList, analyzeKeywords, getKeywordTrends and
\* computeAggregateTrend an empty list, buildListingTimeline no entries, and
\* calcPortfolio zero totals and avgMargin 0.
C14_TotalOnEmpty ==
  /\ op = "computeKPIs" /\ args.listings = <<>> =>
       result = [total |-> 0, totalImpressions |-> Num(0), totalSold |-> Num(0),
                 avgCTR |-> Num(0), deadListings |-> 0]
  /\ op = "computePromotedVsOrganic" /\ args.listings = <<>> =>
       result = [promotedCount |-> 0, organicCount |-> 0,
                 promotedImpressions |-> Num(0), organicImpressions |-> Num(0),
                 promotedCTR |-> Num(0), organicCTR |-> Num(0),
                 promotedPageViews |-> Num(0), organicPageViews |-> Num(0)]
  /\ op = "computeTrending" /\ args.listings = <<>> =>
       result.trendingUp = <<>> /\ result.trendingDown = <<>>
  /\ op = "computeSportBreakdown" /\ args.listings = <<>> => DOMAIN result = {}
  /\ op = "computePriorityList" /\ args.listings = <<>> => result = <<>>
  /\ op = "analyzeKeywords" /\ args.listings = <<>> => result = <<>>
  /\ op = "getKeywordTrends" /\ args.listings = <<>> => result = <<>>
  /\ op = "computeAggregateTrend" /\ args.reports = <<>> => result = <<>>
  /\ op = "buildListingTimeline" /\ args.reports = <<>> => Len(result) = 0
  /\ op = "calcPortfolio" /\ args.listings = <<>> =>
       /\ result # TypeError
       /\ result.totalValue = Num(0)
       /\ result.totalCogs = Num(0)
       /\ result.totalNetProfit = Num(0)
       /\ result.totalQty = Num(0)
       /\ result.avgMargin = Num(0)
       /\ result.listingCount = 0

\* computeKPIs([]) has returned.
C14_Witness ==
  /\ op = "computeKPIs"
  /\ args.listings = <<>>
  /\ result.total = 0
  /\ result.avgCTR = Num(0)

\* C15: calcListing returns the listing's shippingOverride as shippingMethod
\* whenever the listing carries one, whatever the price (override "ground"
\* with the default settings returns "ground"); without an override it
\* returns 'ga' when price > threshold and 'ese' otherwise, also when the
\* price equals the threshold.
C15_ShippingMethodSelection ==
  op = "calcListing" =>
    LET price == NullAsZero(args.listing.price)
    IN  /\ result # TypeError
        /\ result.shippingMethod =
             IF args.listing.shippingOverride # "" THEN args.listing.shippingOverride
             ELSE IF Greater(price, args.settings.shipping.threshold) THEN "ga"
             ELSE "ese"

\* The sum of the unit costs (a missing one as 0) of the materials that
\* satisfy Applies.
MaterialSum(materials, Applies) ==
  SumSeq([k \in 1..Len(materials) |->
            IF Applies[k] THEN NullAsZero(materials[k].unitCost) ELSE Num(0)])

C17_PortfolioTotals ==
  op = "calcPortfolio" /\ result # TypeError =>
    LET ls  == args.listings
        n   == Len(ls)
        qty == [k \in 1..n |-> IF IsNum(ls[k].quantity) THEN ls[k].quantity ELSE Num(1)]
        one == [k \in 1..n |-> calcListing(ls[k], args.settings)]
        totalValue == SumSeq([k \in 1..n |-> Mul(NullAsZero(ls[k].price), qty[k])])
        totalCogs  == SumSeq([k \in 1..n |-> Mul(one[k].cogs, qty[k])])
        totalNetProfit == SumSeq([k \in 1..n |-> Mul(one[k].netProfit, qty[k])])
    IN  /\ result.totalValue = ToFixed(totalValue, 100)
        /\ result.totalCogs = ToFixed(totalCogs, 100)
        /\ result.totalNetProfit = ToFixed(totalNetProfit, 100)
        /\ result.avgMargin =
             ToFixed(IF Greater(totalValue, Num(0))
                     THEN Mul(Div(totalNetProfit, totalValue), Num(100)) ELSE Num(0), 100)

\* ------------------------------------------------ cogs.js: persistence

\* The value of localStorage.getItem(STORAGE_KEY): null when there is no
\* item, otherwise a string, which is the JSON text of a settings record or
\* a text JSON.parse rejects.
NoItem == [json |-> "none", value |-> Null]

CorruptItem == [json |-> "corrupt", value |-> Null]

\* JSON.stringify(settings)
JsonStringify(settings) == [json |-> "object", value |-> settings]

\* JSON.parse(raw) of a JSON text written by JsonStringify.
JsonParse(raw) == raw.value

\* save without the assignment of _version.
SaveAsGiven(settings) == JsonStringify(settings)

\* COGS.load(): the settings returned and the item left in localStorage.
\* raw is the stored item; setItemOk tells whether localStorage.setItem
\* succeeds (its exception is swallowed).
load(raw, setItemOk) ==
  IF raw = NoItem \/ raw = CorruptItem
  THEN [value |-> DEFAULTS, localStorage |-> raw]
  ELSE LET saved == JsonParse(raw)
       IN  IF saved.version = 0 \/ saved.version < SETTINGS_VERSION
           THEN LET fresh == [DEFAULTS EXCEPT
                                !.version = SETTINGS_VERSION,
                                !.ebayFeeRate = IF saved.ebayFeeRate # Undefined
                                                THEN saved.ebayFeeRate ELSE @]
                IN  [value |-> fresh,
                     localStorage |-> IF setItemOk THEN JsonStringify(fresh) ELSE raw]
           ELSE [value |-> saved, localStorage |-> raw]

\* -------------------------------------- specification: loading settings

\* Persisted records: every version up to the current one (0: no _version),
\* the fee rate absent, default or customized, the shipping table and the
\* materials default or customized.
SavedSettings ==
  { [ebayFeeRate |-> fee, shipping |-> ship, materials |-> mats, version |-> v] :
      fee \in {Undefined, DEFAULTS.ebayFeeRate, Rat(1, 10)},
      ship \in {DEFAULTS.shipping,
                [ese |-> ShippingMethod("eBay Std Envelope", Rat(74, 100)),
                 ga  |-> ShippingMethod("Ground Advantage", Num(6)),
                 threshold |-> Num(15)]},
      mats \in {DEFAULTS.materials,
                <<Material("sleeve", Rat(3, 100), TRUE, <<"ese", "ga">>),
                  Material("mat_1", Rat(1, 10), TRUE, <<>>)>>},
      v \in 0..SETTINGS_VERSION }

InitLoad ==
  /\ op = "none"
  /\ args \in [localStorage : {NoItem, CorruptItem} \cup {JsonStringify(s) : s \in SavedSettings}]
  /\ result = NotCalled

CallLoad ==
  /\ op = "none"
  /\ op' = "load"
  /\ \E setItemOk \in BOOLEAN : result' = load(args.localStorage, setItemOk)
  /\ UNCHANGED args

NextLoad == CallLoad

SpecLoad == InitLoad /\ [][NextLoad]_vars

\* C18: load of a persisted record whose version is missing or older than the
\* current one returns the default materials, the current version, and the
\* persisted fee rate, postage amounts and threshold; load of a record at the
\* current version returns the record.
C18_StaleLoadKeepsScalars ==
  op = "load" /\ args.localStorage.json = "object" =>
    LET saved == args.localStorage.value
    IN  IF saved.version < SETTINGS_VERSION
        THEN /\ result.value.materials = DEFAULTS.materials
             /\ result.value.version = SETTINGS_VERSION
             /\ saved.ebayFeeRate # Undefined => result.value.ebayFeeRate = saved.ebayFeeRate
             /\ result.value.shipping.ese.postage = saved.shipping.ese.postage
             /\ result.value.shipping.ga.postage = saved.shipping.ga.postage
             /\ result.value.shipping.threshold = saved.shipping.threshold
        ELSE result.value = saved

\* ----------------------------------------- csvParser.js (part_001)

\* A string is the sequence of its characters, so that the parser's scans
\* (split at commas, trim, strip, parseFloat) are computed character by
\* character.  A string value that may also be null or undefined is wrapped:
Str(chars) == [t |-> "string", chars |-> chars]

\* The array of listings parse returns (a record, as the error is, so that
\* the two outcomes can be told apart).
Listings(rows) == [t |-> "listings", rows |-> rows]

\* The exception thrown by parse.
ParseError == [t |-> "Error", n |-> 0, d |-> 1]

IsSpace(c) == c \in {" ", "\t"}

DigitChars == <<"0", "1", "2", "3", "4", "5", "6", "7", "8", "9">>

IsDigit(c) == \E k \in 1..10 : DigitChars[k] = c

DigitValue(c) == (CHOOSE k \in 1..10 : DigitChars[k] = c) - 1

\* s.trim()
Trim(s) ==
  LET keep == {i \in 1..Len(s) : ~IsSpace(s[i])}
  IN  IF keep = {} THEN <<>>
      ELSE SubSeq(s, CHOOSE i \in keep : \A j \in keep : i <= j,
                     CHOOSE i \in keep : \A j \in keep : i >= j)

\* s.replace(/c/g, '') for a character c
RemoveChar(s, c) == SelectSeq(s, LAMBDA x : x # c)

\* s.startsWith(prefix)
StartsWith(s, prefix) == Len(s) >= Len(prefix) /\ SubSeq(s, 1, Len(prefix)) = prefix

\* The number of digits of s from position from on.
DigitRun(s, from) ==
  LET runs == {k \in 0..(Len(s) + 1 - from) : \A j \in from..(from + k - 1) : IsDigit(s[j])}
  IN  IF from > Len(s) THEN 0 ELSE CHOOSE k \in runs : \A j \in runs : j <= k

\* The value of the len digits of s from position from on.
DigitsValue(s, from, len) ==
  LET f[i \in 0..len] == IF i = 0 THEN 0 ELSE 10 * f[i - 1] + DigitValue(s[from + i - 1])
  IN  f[len]

Pow10(k) ==
  LET f[i \in 0..k] == IF i = 0 THEN 1 ELSE 10 * f[i - 1]
  IN  f[k]

\* parseFloat(s): the longest prefix of s, after leading white space, that is
\* a decimal literal (sign, digits, fraction); NaN when there is none.  The
\* strings of the model have no exponent and do not spell Infinity.
ParseFloat(s) ==
  LET t       == Trim(s)
      signLen == IF Len(t) > 0 /\ t[1] \in {"+", "-"} THEN 1 ELSE 0
      intLen  == DigitRun(t, signLen + 1)
      hasDot  == Len(t) >= signLen + intLen + 1 /\ t[signLen + intLen + 1] = "."
      fracLen == IF hasDot THEN DigitRun(t, signLen + intLen + 2) ELSE 0
      mag     == Rat(DigitsValue(t, signLen + 1, intLen) * Pow10(fracLen)
                       + DigitsValue(t, signLen + intLen + 2, fracLen), Pow10(fracLen))
  IN  IF intLen = 0 /\ fracLen = 0 THEN NaN
      ELSE IF signLen = 1 /\ t[1] = "-" THEN Sub(Num(0), mag) ELSE mag

\* parseInt(s, 10): the longest prefix of s, after leading white space, that
\* is a sign and digits; NaN when it has no digit.
ParseInt(s) ==
  LET t       == Trim(s)
      signLen == IF Len(t) > 0 /\ t[1] \in {"+", "-"} THEN 1 ELSE 0
      intLen  == DigitRun(t, signLen + 1)
      mag     == Num(DigitsValue(t, signLen + 1, intLen))
  IN  IF intLen = 0 THEN NaN
      ELSE IF signLen = 1 /\ t[1] = "-" THEN Sub(Num(0), mag) ELSE mag

\* One iteration of the loop of parseLine, at the character line[i]; skip is
\* the i++ that steps over the second quote of a doubled quote.
LineStep(st, line, i) ==
  LET ch == line[i]
  IN  IF st.skip THEN [st EXCEPT !.skip = FALSE]
      ELSE IF ch = "\""
      THEN IF st.inQuotes /\ i < Len(line) /\ line[i + 1] = "\""
           THEN [st EXCEPT !.current = Append(@, "\""), !.skip = TRUE]
           ELSE [st EXCEPT !.inQuotes = ~@]
      ELSE IF ch = "," /\ ~st.inQuotes
      THEN [st EXCEPT !.fields = Append(@, st.current), !.current = <<>>]
      ELSE [st EXCEPT !.current = Append(@, ch)]

\* The iterations lo..hi of the loop, from the state st (computed by halves).
RECURSIVE ScanLine(_, _, _, _)
ScanLine(st, line, lo, hi) ==
  IF lo > hi THEN st
  ELSE IF lo = hi THEN LineStep(st, line, lo)
  ELSE LET mid  == (lo + hi) \div 2
           left == ScanLine(st, line, lo, mid)
       IN  IF left = st THEN ScanLine(st, line, mid + 1, hi)
           ELSE ScanLine(left, line, mid + 1, hi)

\* CSVParser.parseLine(line): the fields of a line, split at the commas
\* outside quotes; a doubled quote inside quotes is a quote character.
parseLine(line) ==
  LET last == ScanLine([fields |-> <<>>, current |-> <<>>, inQuotes |-> FALSE, skip |-> FALSE],
                       line, 1, Len(line))
  IN  Append(last.fields, last.current)

\* CSVParser.cleanValue(raw): raw is Str(chars), or undefined for a field the
\* row does not have.
cleanValue(raw) ==
  IF raw = Undefined \/ raw = Null THEN Null
  ELSE LET s == Trim(raw.chars)
       IN  IF s = <<>> \/ s = <<"-">> THEN Null
           ELSE IF Len(s) >= 3 /\ s[1] = "=" /\ s[2] = "\"" /\ s[Len(s)] = "\""
                THEN Str(SubSeq(s, 3, Len(s) - 1))
           ELSE IF Len(s) >= 2 /\ s[1] = "=" /\ \A j \in 2..Len(s) : IsDigit(s[j])
                THEN Str(SubSeq(s, 2, Len(s)))
           ELSE Str(s)

\* (raw || ''): the characters of a string value, none for null, undefined
\* and the empty string.
OrEmpty(raw) == IF raw = Undefined \/ raw = Null THEN <<>> ELSE raw.chars

\* parsePercent without the isNaN test.
ParsePercentKeepingNaN(raw) ==
  LET s == Trim(OrEmpty(raw))
  IN  IF s = <<>> \/ s = <<"-">> THEN Null
      ELSE ParseFloat(RemoveChar(RemoveChar(s, ","), "%"))

\* CSVParser.parsePercent(raw)
parsePercent(raw) ==
  LET s == Trim(OrEmpty(raw))
  IN  IF s = <<>> \/ s = <<"-">> THEN Null
      ELSE LET num == ParseFloat(RemoveChar(RemoveChar(s, ","), "%"))
           IN  IF num = NaN THEN Null ELSE num

\* CSVParser.parseInteger(raw)
parseInteger(raw) ==
  LET s == Trim(OrEmpty(raw))
  IN  IF s = <<>> \/ s = <<"-">> THEN Null
      ELSE LET num == ParseInt(RemoveChar(s, ","))
           IN  IF num = NaN THEN Null ELSE num

\* Column names of the report that buildListing reads.
ColListingTitle == <<"L", "i", "s", "t", "i", "n", "g", " ", "t", "i", "t", "l", "e">>

ColItemId == <<"e", "B", "a", "y", " ", "i", "t", "e", "m", " ", "I", "D">>

ColTotalImpressions == <<"T", "o", "t", "a", "l", " ", "i", "m", "p", "r", "e", "s", "s", "i", "o", "n", "s">>

ColTop20Pct == <<"%", " ", "T", "o", "p", " ", "2", "0", " ", "S", "e", "a", "r", "c", "h", " ", "I", "m", "p", "r", "e", "s", "s", "i", "o", "n", "s">>

ColQuantitySold == <<"Q", "u", "a", "n", "t", "i", "t", "y", " ", "s", "o", "l", "d">>

ColTotalPageViews == <<"T", "o", "t", "a", "l", " ", "p", "a", "g", "e", " ", "v", "i", "e", "w", "s">>

\* raw[name] of the map filled by
\*   headers.forEach((h, idx) => { raw[h] = cleanValue(fields[idx]); })
\* (a later column of the same name overwrites an earlier one; a name that
\* is not a header reads as undefined).
RawGet(names, fields, name) ==
  LET cols == {idx \in 1..Len(names) : names[idx] = name}
  IN  IF cols = {} THEN Undefined
      ELSE LET idx == CHOOSE i \in cols : \A j \in cols : j <= i
           IN  cleanValue(IF idx <= Len(fields) THEN Str(fields[idx]) ELSE Undefined)

\* CSVParser.buildListing(raw), for six of its columns: the two strings, two
\* integer metrics, a percentage, and an integer metric (page views) whose
\* column the header of the model does not have.
buildListing(names, fields) ==
  [title |-> OrEmpty(RawGet(names, fields, ColListingTitle)),
   itemId |-> OrEmpty(RawGet(names, fields, ColItemId)),
   totalImpressions |-> parseInteger(RawGet(names, fields, ColTotalImpressions)),
   top20Pct |-> parsePercent(RawGet(names, fields, ColTop20Pct)),
   quantitySold |-> parseInteger(RawGet(names, fields, ColQuantitySold)),
   totalPageViews |-> parseInteger(RawGet(names, fields, ColTotalPageViews))]

\* The index of the header row: the first line that starts with
\* 'Listing title'; 0 (in the source -1) when there is none.
HeaderIdx(rawLines) ==
  LET hits == {i \in 1..Len(rawLines) : StartsWith(rawLines[i], ColListingTitle)}
  IN  IF hits = {} THEN 0 ELSE CHOOSE i \in hits : \A j \in hits : i <= j

\* The test of the loop of parse without the minimum number of fields.
RowAcceptedAnyLength(names, rawLine) ==
  /\ Trim(rawLine) # <<>>
  /\ OrEmpty(RawGet(names, parseLine(Trim(rawLine)), ColListingTitle)) # <<>>

\* Does the loop of parse push a listing for this line?
RowAccepted(names, rawLine) ==
  /\ Trim(rawLine) # <<>>
  /\ Len(parseLine(Trim(rawLine))) >= 5
  /\ OrEmpty(RawGet(names, parseLine(Trim(rawLine)), ColListingTitle)) # <<>>

\* CSVParser.parse(csvText); rawLines is csvText.split(/\r?\n/).
parse(rawLines) ==
  LET headerIdx == HeaderIdx(rawLines)
  IN  IF headerIdx = 0 THEN ParseError
      ELSE LET hdr     == parseLine(rawLines[headerIdx])
               headers == [k \in 1..Len(hdr) |-> Trim(hdr[k])]
               rows    == SelectSeq(SubSeq(rawLines, headerIdx + 1, Len(rawLines)),
                                    LAMBDA row : RowAccepted(headers, row))
           IN  Listings([k \in 1..Len(rows) |->
                           buildListing(headers, parseLine(Trim(rows[k])))])

\* ------------------------------------------ specification: parse(text)

\* Longest text, in lines.
MaxLines == 3

\* A disclaimer row.
LinePreamble == <<"D", "i", "s", "c", "l", "a", "i", "m", "e", "r", "s">>

LineHeader == <<"L", "i", "s", "t", "i", "n", "g", " ", "t", "i", "t", "l", "e", ",", "e", "B", "a", "y", " ", "i", "t", "e", "m", " ", "I", "D", ",", "T", "o", "t", "a", "l", " ", "i", "m", "p", "r", "e", "s", "s", "i", "o", "n", "s", ",", "%", " ", "T", "o", "p", " ", "2", "0", " ", "S", "e", "a", "r", "c", "h", " ", "I", "m", "p", "r", "e", "s", "s", "i", "o", "n", "s", ",", "Q", "u", "a", "n", "t", "i", "t", "y", " ", "s", "o", "l", "d">>

\* A row that starts with 'Listing title' and has no column of that name.
LineHeaderVariant == <<"L", "i", "s", "t", "i", "n", "g", " ", "t", "i", "t", "l", "e", " ", "(", "a", "l", "l", ")", ",", "a", ",", "b", ",", "c", ",", "d">>

\* Card A,="12","1,234","1,150.0%",-
LineData == <<"C", "a", "r", "d", " ", "A", ",", "=", "\"", "1", "2", "\"", ",", "\"", "1", ",", "2", "3", "4", "\"", ",", "\"", "1", ",", "1", "5", "0", ".", "0", "%", "\"", ",", "-">>

\* A row whose title cell is the placeholder '-'.
LineDashTitle == <<"-", ",", "=", "7", ",", "5", ",", "2", ".", "0", "%", ",", "1">>

\* A row of four fields.
LineShort == <<"C", "a", "r", "d", " ", "B", ",", "=", "8", ",", "3", ",", "4">>

LineEmptyTitle == <<",", "=", "9", ",", "1", ",", "2", ",", "3">>

\* An indented row whose metrics are not numbers and whose last cell is empty.
LineIndented == <<" ", " ", "C", "a", "r", "d", " ", "C", ",", "=", "7", ",", "a", "b", "c", ",", "1", "2", "a", "b", "c", ",", " ", " ">>

ParseLines ==
  {LinePreamble, LineHeader, LineHeaderVariant, LineData, LineDashTitle, LineShort,
   LineEmptyTitle, LineIndented}

InitParse ==
  /\ op = "none"
  /\ args \in [rawLines : SeqsUpTo(ParseLines, MaxLines)]
  /\ result = NotCalled

CallParse ==
  /\ op = "none"
  /\ op' = "parse"
  /\ result' = parse(args.rawLines)
  /\ UNCHANGED args

NextParse == CallParse

SpecParse == InitParse /\ [][NextParse]_vars

\* The lines after the first line that starts with 'Listing title'.
LinesAfterHeader(rawLines) ==
  LET hits == {i \in 1..Len(rawLines) : StartsWith(rawLines[i], ColListingTitle)}
      h    == CHOOSE i \in hits : \A j \in hits : i <= j
  IN  SubSeq(rawLines, h + 1, Len(rawLines))

CellBodies ==
  { <<>>, <<"-">>, <<"a", "b", "c">>, <<"0">>, <<"4", "5">>, <<"1", ",", "2", "3", "4">>, <<"1", ",", "1", "5", "0", ".", "0">>, <<"-", "4", "0", ".", "0">>, <<"2", ".", "5">>, <<"1", "2", "a", "b", "c">> }

CellTexts ==
  {lead \o body \o pct \o trail :
     lead \in {<<>>, <<" ">>}, body \in CellBodies, pct \in {<<>>, <<"%">>},
     trail \in {<<>>, <<" ">>}}

\* fields[idx] of an accepted row: a cell, or undefined for a row that ends
\* before the column.
InitField ==
  /\ op = "none"
  /\ args \in [field : {Undefined} \cup {Str(c) : c \in CellTexts}]
  /\ result = NotCalled

\* An integer metric of buildListing: parseInteger(raw[column]).
CallParseInteger ==
  /\ op = "none"
  /\ op' = "parseInteger"
  /\ result' = parseInteger(cleanValue(args.field))
  /\ UNCHANGED args

\* A percentage metric of buildListing: parsePercent(raw[column]).
CallParsePercent ==
  /\ op = "none"
  /\ op' = "parsePercent"
  /\ result' = parsePercent(cleanValue(args.field))
  /\ UNCHANGED args

NextField == CallParseInteger \/ CallParsePercent

SpecField == InitField /\ [][NextField]_vars

\* The text of a cell without the white space around it and without a
\* trailing %.
CellBody(field) ==
  LET s == IF field = Undefined THEN <<>> ELSE Trim(field.chars)
  IN  IF Len(s) > 0 /\ s[Len(s)] = "%" THEN Trim(SubSeq(s, 1, Len(s) - 1)) ELSE s

DeclinedOrNull(entry) ==
  LET change == computeListingChange(entry)
  IN  IF change = Null THEN Null
      ELSE IF ~change.isDeclined /\ ~change.isNewIssue THEN Null
      ELSE [listing |-> entry, change |-> change]

\* The impressions of the latest record of a row's listing.
LatestImpr(row) == row.listing.snapshots[Len(row.listing.snapshots)].totalImpressions

\* The comparator of getDeclinedListings' sort.
CompareDeclined(a, b) ==
  IF a.change.isNewIssue # b.change.isNewIssue
  THEN IF a.change.isNewIssue THEN -1 ELSE 1
  ELSE SignOfDiff(LatestImpr(b), LatestImpr(a))

\* getDeclinedListings sorting by impressions only.
GetDeclinedListingsByImpressions(timeline) ==
  LET mapped == [k \in 1..Len(timeline) |-> DeclinedOrNull(timeline[k])]
      kept   == SelectSeq(mapped, LAMBDA x : x # Null)
  IN  SortBy(kept, [i, j \in 1..Len(kept) |-> SignOfDiff(LatestImpr(kept[j]), LatestImpr(kept[i]))])

\* getDeclinedListings looking only at the entries that have a record of the
\* most recent report.
GetDeclinedListingsOfLatestReport(timeline) ==
  LET LastAt(e) == e.snapshots[Len(e.snapshots)].uploadedAt
      mapped == [k \in 1..Len(timeline) |->
                   IF \E j \in 1..Len(timeline) : LastAt(timeline[j]) > LastAt(timeline[k])
                   THEN Null ELSE DeclinedOrNull(timeline[k])]
      kept   == SelectSeq(mapped, LAMBDA x : x # Null)
  IN  SortBy(kept, [i, j \in 1..Len(kept) |-> CompareDeclined(kept[i], kept[j])])

\* Trends.getDeclinedListings(timeline); timeline is Object.values(timeline),
\* the entries in the order their keys were inserted.
getDeclinedListings(timeline) ==
  LET mapped == [k \in 1..Len(timeline) |-> DeclinedOrNull(timeline[k])]
      kept   == SelectSeq(mapped, LAMBDA x : x # Null)
  IN  SortBy(kept, [i, j \in 1..Len(kept) |-> CompareDeclined(kept[i], kept[j])])

\* ---------------- specification: declined listings of a stored catalog
\* Three stored reports; item a is in some of them, item b in some of the
\* later two and item c in both or neither of them, with a badge and
\* impressions each time; the first report also holds a listing without
\* an item id.  The timeline of the reports is built, in chronological or in
\* another order, and getDeclinedListings is applied to it.

\* The upload times of the reports.
DeclTimes == {1, 2, 3}

DeclListing(id, imp, badge) ==
  Listing(id, "card", imp, Num(1), Num(4), Num(0),
          IF badge = "green" THEN Num(70) ELSE IF badge = "yellow" THEN Num(45) ELSE Num(10),
          badge, FALSE)

\* The histories of an item: the reports that list it, and its impressions
\* and badge in each.
DeclHistories(times, imps) ==
  UNION {[T -> [imp : imps, badge : Badges]] : T \in SUBSET times}

\* Item c is absent, becomes a new issue in the last report, or declines in it.
DeclHistoriesC ==
  { <<>>,
    (2 :> [imp |-> Num(25), badge |-> "yellow"]) @@ (3 :> [imp |-> Num(25), badge |-> "red"]),
    (2 :> [imp |-> Num(40), badge |-> "green"]) @@ (3 :> [imp |-> Num(15), badge |-> "yellow"]) }

\* The report uploaded at time t.
DeclReport(t, ha, hb, hc) ==
  LET At(id, h) == IF t \in DOMAIN h THEN <<DeclListing(id, h[t].imp, h[t].badge)>> ELSE <<>>
      id        == IF t = 1 THEN "r1" ELSE IF t = 2 THEN "r2" ELSE "r3"
  IN  Report(id, t, At("a", ha) \o At("b", hb) \o At("c", hc)
                      \o (IF t = 1 THEN <<DeclListing("", Num(5), "red")>> ELSE <<>>))

\* The orders in which the reports are handed over.
DeclOrders == {<<1, 2, 3>>, <<3, 1, 2>>}

InitDecl ==
  /\ op = "none"
  /\ \E ha \in DeclHistories(DeclTimes, {Num(10), Num(30)}), hb \in DeclHistories({2, 3}, {Num(20)}) :
       \E hc \in DeclHistoriesC, order \in DeclOrders :
         args = [reports |-> [k \in 1..3 |-> DeclReport(order[k], ha, hb, hc)]]
  /\ result = NotCalled

\* getDeclinedListings(timeline) for the timeline just built.
CallGetDeclinedListings ==
  /\ op = "buildListingTimeline"
  /\ op' = "getDeclinedListings"
  /\ args' = [reports |-> args.reports, timeline |-> result]
  /\ result' = getDeclinedListings(result)

NextDecl == CallBuildListingTimeline \/ CallGetDeclinedListings

SpecDecl == InitDecl /\ [][NextDecl]_vars

\* C22: getDeclinedListings(timeline) returns exactly the entries that have a
\* non-null computeListingChange whose isDeclined or isNewIssue is true, each
\* once and with that change; every entry with isNewIssue precedes every
\* entry without it, and within each of the two groups the impressions of the
\* latest record do not increase.
C22_DeclinedListings ==
  op = "getDeclinedListings" =>
    LET tl      == args.timeline
        Hit(e)  == /\ computeListingChange(e) # Null
                   /\ computeListingChange(e).isDeclined \/ computeListingChange(e).isNewIssue
        hits    == {k \in 1..Len(tl) : Hit(tl[k])}
    IN  /\ Len(result) = Cardinality(hits)
        /\ {result[k].listing : k \in 1..Len(result)} = {tl[k] : k \in hits}
        /\ \A k \in 1..Len(result) : result[k].change = computeListingChange(result[k].listing)
        /\ \A i, j \in 1..Len(result) :
             i < j =>
               /\ result[j].change.isNewIssue => result[i].change.isNewIssue
               /\ result[i].change.isNewIssue = result[j].change.isNewIssue
                    => ~Less(LatestImpr(result[i]), LatestImpr(result[j]))

\* Three entries are returned, new issues and mere declines among them, in
\* another order than the timeline has them.
C22_Witness ==
  /\ op = "getDeclinedListings"
  /\ Len(result) = 3
  /\ result[1].change.isNewIssue
  /\ result[2].change.isNewIssue
  /\ Less(LatestImpr(result[2]), LatestImpr(result[1]))
  /\ ~result[3].change.isNewIssue
  /\ result[1].listing.itemId = "c"


\* The change of the k-th entry of a timeline.
ChangeOfEntry(tl, k) == computeListingChange(tl[k])

\* C28: with badges among green, yellow and red, every change that has
\* isNewIssue also has isDeclined, and getDeclinedListings returns exactly the
\* entries whose change has isDeclined.
C28_NewIssueIsDecline ==
  op = "getDeclinedListings" =>
    LET tl == args.timeline
    IN  /\ \A k \in 1..Len(tl) :
             (ChangeOfEntry(tl, k) # Null /\ ChangeOfEntry(tl, k).isNewIssue)
               => ChangeOfEntry(tl, k).isDeclined
        /\ {result[k].listing : k \in 1..Len(result)}
             = {tl[k] : k \in {n \in 1..Len(tl) : /\ ChangeOfEntry(tl, n) # Null
                                                  /\ ChangeOfEntry(tl, n).isDeclined}}

\* An entry that went from yellow to red, a new issue, is returned.
C28_Witness ==
  /\ op = "getDeclinedListings"
  /\ \E k \in 1..Len(result) :
       /\ result[k].change.isNewIssue
       /\ result[k].change.prevHealthBadge = "yellow"
       /\ result[k].change.currHealthBadge = "red"

\* The upload times of the reports that list item id, and the listing of the
\* item in the report uploaded at time t.
TimesOfItem(reports, id) ==
  {reports[k].uploadedAt : k \in {n \in 1..Len(reports) :
                                    \E i \in 1..Len(reports[n].data) : reports[n].data[i].itemId = id}}

ListingAt(reports, id, t) ==
  LET r == CHOOSE n \in 1..Len(reports) : reports[n].uploadedAt = t
  IN  reports[r].data[CHOOSE i \in 1..Len(reports[r].data) : reports[r].data[i].itemId = id]

MaxTrend == 12

\* The i-th listing of the catalog with offset a, stride s and shift c.
TrendListing(i, a, s, c) ==
  LET raw == (a + s * i) % 13
      v   == raw - c
  IN  IF raw = 12
      THEN AggListing("card", Num(i), Num(1), Num(4), Num(0), FALSE, Null, Null)
      ELSE IF i % 3 = 0
      THEN AggListing("card", Num(i), Num(1), Num(4), Num(0), FALSE, Num(v), Null)
      ELSE IF i % 3 = 1
      THEN AggListing("card", Num(i), Num(1), Num(4), Num(0), FALSE, Null, Num(v))
      ELSE AggListing("card", Num(i), Num(1), Num(4), Num(0), FALSE, Num(v + 3), Num(v - 3))

\* The i-th listing of a synced catalog.
SyncedListing(i) ==
  AggListing("card", Num(0), Num(0), Num(0), Num(i), FALSE, Null, Undefined)

InitTrend ==
  /\ op = "none"
  /\ \E n \in 0..MaxTrend :
       \/ \E a \in 0..12, s \in {1, 5, 12}, c \in {0, 6, 11} :
            args = [listings |-> [i \in 1..n |-> TrendListing(i, a, s, c)]]
       \/ args = [listings |-> [i \in 1..n |-> SyncedListing(i)]]
  /\ result = NotCalled

NextTrend == CallComputeTrending

SpecTrend == InitTrend /\ [][NextTrend]_vars

\* The score of the claim: the average of the change columns that hold a
\* number.
ScoreOfChanges(l) ==
  IF IsNum(l.nonSearchOrganicChangePct) /\ IsNum(l.top20OrganicChangePct)
  THEN Div(Add(l.nonSearchOrganicChangePct, l.top20OrganicChangePct), Num(2))
  ELSE IF IsNum(l.nonSearchOrganicChangePct) THEN l.nonSearchOrganicChangePct
  ELSE l.top20OrganicChangePct

\* C24: trendingUp holds the listings with a score above 0, or the ten of
\* them with the highest scores when there are more, in descending order of
\* score; trendingDown holds the listings with a score below 0, or the ten of
\* them with the lowest scores; a listing without a number in either column,
\* or with score 0, is in neither list, and no listing is in both.
C24_Trending ==
  op = "computeTrending" =>
    LET ls     == args.listings
        up     == result.trendingUp
        down   == result.trendingDown
        scored == {i \in 1..Len(ls) : \/ IsNum(ls[i].nonSearchOrganicChangePct)
                                      \/ IsNum(ls[i].top20OrganicChangePct)}
        pos    == {i \in scored : Greater(ScoreOfChanges(ls[i]), Num(0))}
        neg    == {i \in scored : Less(ScoreOfChanges(ls[i]), Num(0))}
        upAt   == {i \in 1..Len(ls) : \E k \in 1..Len(up) : up[k] = ls[i]}
        downAt == {i \in 1..Len(ls) : \E k \in 1..Len(down) : down[k] = ls[i]}
        Most(S) == IF Cardinality(S) < 10 THEN Cardinality(S) ELSE 10
    IN  /\ upAt \subseteq pos
        /\ downAt \subseteq neg
        /\ Len(up) = Most(pos) /\ Cardinality(upAt) = Len(up)
        /\ Len(down) = Most(neg) /\ Cardinality(downAt) = Len(down)
        /\ \A j, k \in 1..Len(up) :
             j < k => ~Less(ScoreOfChanges(up[j]), ScoreOfChanges(up[k]))
        /\ \A i \in pos \ upAt : \A k \in 1..Len(up) :
             ~Greater(ScoreOfChanges(ls[i]), ScoreOfChanges(up[k]))
        /\ \A i \in neg \ downAt : \A k \in 1..Len(down) :
             ~Less(ScoreOfChanges(ls[i]), ScoreOfChanges(down[k]))
        /\ upAt \cap downAt = {}

\* Of eleven rising listings and one without changes, the ten with the
\* highest scores are trending up.
C24_Witness ==
  /\ op = "computeTrending"
  /\ Len(args.listings) = 12
  /\ Cardinality({i \in 1..12 : Greater(ScoreOfChanges(args.listings[i]), Num(0))}) = 11
  /\ Len(result.trendingUp) = 10
  /\ result.trendingUp[1] # args.listings[1]
  /\ result.trendingDown = <<>>


\* ---------------------------------- specification: computePriorityList
\* Catalogs of up to MaxPrio listings, with every priority, impressions that
\* are equal, different or null, and listings that are equal on both sort
\* keys.

\* Longest catalog.
MaxPrio == 4

PrioListings ==
  { AggListing("high 60", Num(60), Num(0), Num(0), Num(0), FALSE, Null, Null),
    AggListing("high 60 too", Num(60), Num(0), Num(0), Num(0), FALSE, Null, Null),
    AggListing("high 30", Num(30), Num(0), Num(0), Num(0), FALSE, Null, Null),
    AggListing("medium 40", Num(40), Num(1), Num(2), Num(0), FALSE, Null, Null),
    AggListing("medium 10", Num(10), Num(0), Num(0), Num(0), FALSE, Null, Null),
    AggListing("good 60", Num(60), Num(1), Num(3), Num(2), FALSE, Null, Null),
    AggListing("low 0", Num(0), Num(0), Num(0), Num(0), FALSE, Null, Null),
    AggListing("low null", Null, Null, Null, Null, FALSE, Null, Null) }

InitPrio ==
  /\ op = "none"
  /\ args \in [listings : SeqsUpTo(PrioListings, MaxPrio)]
  /\ result = NotCalled

NextPrio == CallComputePriorityList

SpecPrio == InitPrio /\ [][NextPrio]_vars

\* The two sort keys of a listing: the rank of its recommendation's priority
\* and its impressions, null as 0.
RankOf(l) ==
  LET p == getRecommendation(l).priority
  IN  IF p = "high" THEN 0 ELSE IF p = "medium" THEN 1 ELSE IF p = "low" THEN 2 ELSE 3

ImprOf(l) == IF l.totalImpressions = Null THEN Num(0) ELSE l.totalImpressions

ItemIdsOf(reports) ==
  {id \in UNION {{reports[n].data[i].itemId : i \in 1..Len(reports[n].data)} :
                   n \in 1..Len(reports)} : id # ""}

NewObject(objects, value) == Append(objects, value)

\* Array.prototype.sort, reverse and push, and an assignment to a property,
\* change the object they are applied to.
WriteObject(objects, ref, value) == [objects EXCEPT ![ref] = value]

\* Analyzer.enrich(listings)
enrich(listings) ==
  [k \in 1..Len(listings) |->
     [listing |-> listings[k], sport |-> detectSport(OrStr(listings[k].title, "")),
      recommendation |-> getRecommendation(listings[k])]]

\* Analyzer.enrichWithScores(listings)
enrichWithScores(listings) ==
  LET enriched == enrich(listings)
  IN  [k \in 1..Len(enriched) |->
         [listing |-> enriched[k].listing, sport |-> enriched[k].sport,
          recommendation |-> enriched[k].recommendation,
          healthScore |-> calcHealthScore(enriched[k].listing, listings),
          healthBadge |-> healthBadge(calcHealthScore(enriched[k].listing, listings))]]

\* KeywordAnalyzer.getKeywordSuggestions(keyword, allKeywords)
getKeywordSuggestions(keyword, allKeywords) ==
  IF keyword = "" \/ Len(allKeywords) = 0 THEN <<>>
  ELSE LET others == SelectSeq(allKeywords, LAMBDA kw : kw.keyword # keyword)
           sorted == SortBy(others, [i, j \in 1..Len(others) |->
                               SignOfDiff(others[j].totalImpressions, others[i].totalImpressions)])
       IN  SubSeq(sorted, 1, IF Len(sorted) < 5 THEN Len(sorted) ELSE 5)

\* ------------------------------ specification: the arguments after a call
\* Each core function is applied once to arguments of its kind; `args` after
\* the step is the caller's argument as the function's operations leave it.

\* A scored listing with every column the core functions read.
FrameListing(title, imp, ctr, views, sold, chg, top20Chg) ==
  [itemId |-> "a", title |-> title, totalImpressions |-> imp, ctr |-> ctr,
   totalPageViews |-> views, quantitySold |-> sold, healthScore |-> Num(45),
   healthBadge |-> "yellow", isPromoted |-> FALSE, top20Pct |-> Num(50),
   nonSearchOrganicChangePct |-> chg, top20OrganicChangePct |-> top20Chg]

\* A listing never shown; one seen and not clicked; one clicked and not sold;
\* one that sells.
FrameListings ==
  { FrameListing("Mahomes - ... PSA", Null, Null, Null, Null, Null, Null),
    FrameListing("PSA PSA 10", Num(99), Num(0), Num(0), Num(0), Num(-40), Num(20)),
    FrameListing("psa Card #252", Num(9), Num(2), Num(1), Num(0), Num(50), Null),
    FrameListing("Ohtani Topps RC", Num(1), Num(2), Num(1), Num(1), Null, Num(-10)) }

InitFrame ==
  /\ op = "none"
  /\ \/ args \in [listings : SeqsUpTo(FrameListings, MaxListings)]
     \/ args \in [keyword : {"", "psa"},
                  keywords : {analyzeKeywords(ls) : ls \in SeqsUpTo(FrameListings, MaxListings)}]
     \/ args \in [reports : CoreReports]
     \/ args \in [timeline : {buildListingTimeline(r) : r \in CoreReports}]
     \/ args \in [report1 : {Null} \cup {Report("r1", 1, d) : d \in KpiData},
                  report2 : {Null} \cup {Report("r2", 2, d) : d \in KpiData}]
     \/ args \in [listing : {CogsListing(p, Num(1), o) : p \in {Num(5), Num(25)}, o \in {"", "ga"}},
                  settings : CogsSettings]
     \/ args \in [listings : SeqsUpTo({CogsListing(p, Num(3), "") : p \in {Num(5), Num(25)}},
                                      MaxListings),
                  settings : CogsSettings]
  /\ result = NotCalled

\* enrichWithScores: enrich's listings.map, then enriched.map.
FrameEnrichWithScores ==
  /\ op = "none"
  /\ DOMAIN args = {"listings"}
  /\ op' = "enrichWithScores"
  /\ LET enriched == NewObject(<<args.listings>>, enrich(args.listings))
         scored   == NewObject(enriched, enrichWithScores(args.listings))
     IN  args' = [args EXCEPT !.listings = scored[1]]
  /\ result' = enrichWithScores(args.listings)

\* computePriorityList: listings.map(...), and .sort(...) of the mapped array.
FrameComputePriorityList ==
  /\ op = "none"
  /\ DOMAIN args = {"listings"}
  /\ op' = "computePriorityList"
  /\ LET mapped == NewObject(<<args.listings>>,
                             [k \in 1..Len(args.listings) |->
                                [listing |-> args.listings[k],
                                 _rec |-> getRecommendation(args.listings[k])]])
         sorted == WriteObject(mapped, Len(mapped), computePriorityList(args.listings))
     IN  args' = [args EXCEPT !.listings = sorted[1]]
  /\ result' = computePriorityList(args.listings)

\* computeTrending: listings.filter(...); [...withChange] and its .sort(...);
\* sorted.slice(0, 10).filter(...); sorted.slice(-10).filter(...), and
\* .reverse() of that last array.
FrameComputeTrending ==
  /\ op = "none"
  /\ DOMAIN args = {"listings"}
  /\ op' = "computeTrending"
  /\ LET trending   == computeTrending(args.listings)
         withChange == NewObject(<<args.listings>>,
                                 SelectSeq(args.listings,
                                           LAMBDA l : l.nonSearchOrganicChangePct # Null
                                                      \/ l.top20OrganicChangePct # Null))
         spread     == NewObject(withChange, withChange[Len(withChange)])
         sorted     == WriteObject(spread, Len(spread),
                                   SortBy(spread[Len(spread)],
                                          [i, j \in 1..Len(spread[Len(spread)]) |->
                                             SignOfDiff(GetChange(spread[Len(spread)][j]),
                                                        GetChange(spread[Len(spread)][i]))]))
         first10    == NewObject(sorted, SliceFirst10(sorted[Len(sorted)]))
         up         == NewObject(first10, trending.trendingUp)
         last10     == NewObject(up, SliceLast10(sorted[Len(sorted)]))
         down       == NewObject(last10, Reverse(trending.trendingDown))
         reversed   == WriteObject(down, Len(down), trending.trendingDown)
     IN  args' = [args EXCEPT !.listings = reversed[1]]
  /\ result' = computeTrending(args.listings)

\* analyzeKeywords: the Map of the keywords, filled listing by listing;
\* Array.from(map.values()).map(...) and the .sort(...) of that array, which
\* is the array returned.
FrameAnalyzeKeywords ==
  /\ op = "none"
  /\ DOMAIN args = {"listings"}
  /\ op' = "analyzeKeywords"
  /\ result' = analyzeKeywords(args.listings)
  /\ LET map     == NewObject(<<args.listings>>, <<>>)
         filled  == WriteObject(map, Len(map), result')
         results == NewObject(filled, result')
         sorted  == WriteObject(results, Len(results), result')
     IN  args' = [args EXCEPT !.listings = sorted[1]]

\* getKeywordTrends: [...keywords] and its .sort(...); keywords.map(...) and
\* the .sort(...) of the mapped array.
FrameGetKeywordTrends ==
  /\ op = "none"
  /\ DOMAIN args = {"keyword", "keywords"}
  /\ op' = "getKeywordTrends"
  /\ LET keywords == args.keywords
         spread   == NewObject(<<keywords>>, keywords)
         sorted   == WriteObject(spread, Len(spread),
                                 SortBy(keywords, [i, j \in 1..Len(keywords) |->
                                          SignOfDiff(keywords[i].avgImpressions,
                                                     keywords[j].avgImpressions)]))
         mapped   == NewObject(sorted, getKeywordTrends(keywords))
         trends   == WriteObject(mapped, Len(mapped), getKeywordTrends(keywords))
     IN  args' = [args EXCEPT !.keywords = IF Len(keywords) = 0 THEN keywords ELSE trends[1]]
  /\ result' = getKeywordTrends(args.keywords)

\* getKeywordSuggestions: allKeywords.filter(...), the .sort(...) of the
\* filtered array, and .slice(0, 5).
FrameGetKeywordSuggestions ==
  /\ op = "none"
  /\ DOMAIN args = {"keyword", "keywords"}
  /\ op' = "getKeywordSuggestions"
  /\ LET keywords == args.keywords
         others   == SelectSeq(keywords, LAMBDA kw : kw.keyword # args.keyword)
         filtered == NewObject(<<keywords>>, others)
         sorted   == WriteObject(filtered, Len(filtered),
                                 SortBy(others, [i, j \in 1..Len(others) |->
                                          SignOfDiff(others[i].totalImpressions,
                                                     others[j].totalImpressions)]))
         sliced   == NewObject(sorted, getKeywordSuggestions(args.keyword, keywords))
     IN  args' = [args EXCEPT !.keywords = IF args.keyword = "" \/ Len(keywords) = 0
                                           THEN keywords ELSE sliced[1]]
  /\ result' = getKeywordSuggestions(args.keyword, args.keywords)

\* buildListingTimeline: the timeline object {}, its entries and their
\* snapshots arrays written push by push, and the .sort(...) of each
\* snapshots array.
FrameBuildListingTimeline ==
  /\ op = "none"
  /\ DOMAIN args = {"reports"}
  /\ op' = "buildListingTimeline"
  /\ LET timeline == NewObject(<<args.reports>>, <<>>)
         pushed   == WriteObject(timeline, Len(timeline), TimelinePushes(args.reports))
         sorted   == WriteObject(pushed, Len(pushed), buildListingTimeline(args.reports))
     IN  args' = [args EXCEPT !.reports = sorted[1]]
  /\ result' = buildListingTimeline(args.reports)

\* computeAggregateTrend: reports.map(...); the arrays and the healthZones
\* object made inside the callback are new and local to it.
FrameComputeAggregateTrend ==
  /\ op = "none"
  /\ DOMAIN args = {"reports"}
  /\ op' = "computeAggregateTrend"
  /\ LET mapped == NewObject(<<args.reports>>, computeAggregateTrend(args.reports))
     IN  args' = [args EXCEPT !.reports = mapped[1]]
  /\ result' = computeAggregateTrend(args.reports)

\* getDeclinedListings: Object.values(timeline), .map(...), .filter(Boolean)
\* and the .sort(...) of the filtered array.
FrameGetDeclinedListings ==
  /\ op = "none"
  /\ DOMAIN args = {"timeline"}
  /\ op' = "getDeclinedListings"
  /\ LET values   == NewObject(<<args.timeline>>, args.timeline)
         mapped   == NewObject(values, [k \in 1..Len(args.timeline) |->
                                          DeclinedOrNull(args.timeline[k])])
         filtered == NewObject(mapped, SelectSeq(mapped[Len(mapped)], LAMBDA row : row # Null))
         sorted   == WriteObject(filtered, Len(filtered), getDeclinedListings(args.timeline))
     IN  args' = [args EXCEPT !.timeline = sorted[1]]
  /\ result' = getDeclinedListings(args.timeline)

\* buildComparison: the rows array [], filled push by push, and
\* rows.sort(...); map1, map2 and allIds are new objects that are only read
\* afterwards.  The first object is the listing array of report1.
FrameBuildComparison ==
  /\ op = "none"
  /\ DOMAIN args = {"report1", "report2"}
  /\ op' = "buildComparison"
  /\ IF args.report1 = Null \/ args.report2 = Null THEN args' = args
     ELSE LET rows   == NewObject(<<args.report1.data>>, <<>>)
              sorted == WriteObject(rows, Len(rows),
                                    buildComparison(args.report1, args.report2))
          IN  args' = [args EXCEPT !.report1.data = sorted[1]]
  /\ result' = buildComparison(args.report1, args.report2)

\* calcListing: settings.materials.filter(...), reduced to a number.
FrameCalcListing ==
  /\ op = "none"
  /\ DOMAIN args = {"listing", "settings"}
  /\ op' = "calcListing"
  /\ LET filtered == NewObject(<<args>>,
                               SelectSeq(args.settings.materials,
                                         LAMBDA mat : MaterialApplies(mat, MethodOf(args.listing,
                                                                                   args.settings))))
     IN  args' = filtered[1]
  /\ result' = calcListing(args.listing, args.settings)

\* calcPortfolio: listings.forEach(...) with a calcListing per listing; the
\* totals are local numbers.
FrameCalcPortfolio ==
  /\ op = "none"
  /\ DOMAIN args = {"listings", "settings"}
  /\ op' = "calcPortfolio"
  /\ LET f[k \in 0..Len(args.listings)] ==
           IF k = 0 THEN <<args>>
           ELSE NewObject(f[k - 1],
                          SelectSeq(args.settings.materials,
                                    LAMBDA mat : MaterialApplies(mat, MethodOf(args.listings[k],
                                                                              args.settings))))
     IN  args' = f[Len(args.listings)][1]
  /\ result' = calcPortfolio(args.listings, args.settings)

NextFrame ==
  \/ FrameEnrichWithScores
  \/ FrameComputePriorityList
  \/ FrameComputeTrending
  \/ FrameAnalyzeKeywords
  \/ FrameGetKeywordTrends
  \/ FrameGetKeywordSuggestions
  \/ FrameBuildListingTimeline
  \/ FrameComputeAggregateTrend
  \/ FrameGetDeclinedListings
  \/ FrameBuildComparison
  \/ FrameCalcListing
  \/ FrameCalcPortfolio

SpecFrame == InitFrame /\ [][NextFrame]_vars

\* C21: no core function changes its arguments: over every call of
\* enrichWithScores, computePriorityList, computeTrending, analyzeKeywords,
\* getKeywordTrends, getKeywordSuggestions, buildListingTimeline,
\* computeAggregateTrend, getDeclinedListings, buildComparison, calcListing and
\* calcPortfolio the input arrays keep their elements in their order and the
\* input records keep their fields and values.
C21_InputsUnchanged == [][args' = args]_vars

\* computePriorityList has returned the second listing of its input first:
\* its sort reordered the rows, and the input still has the two listings in
\* the caller's order.
C21_Witness ==
  /\ op = "computePriorityList"
  /\ Len(args.listings) = 2
  /\ args.listings[1] # args.listings[2]
  /\ result[1].listing = args.listings[2]
  /\ result[2].listing = args.listings[1]


\* ------------------------------------------------ storage.js (part_000)

\* Storage.MAX_REPORTS
MAX_REPORTS == 12

\* What localStorage holds, in units of the size of a small report: setItem
\* throws QuotaExceededError for a store larger than this.
QuotaUnits == 13

\* A report as localStorage keeps it: its id, its upload time and the size of
\* its JSON text (filename, period and listing data).
StoredReport(id, uploadedAt, size) == [id |-> id, uploadedAt |-> uploadedAt, size |-> size]

\* store.reports.sort((a, b) => new Date(a.uploadedAt) - new Date(b.uploadedAt)):
\* the reports by ascending upload time, those of one time in the order they
\* had (Array.prototype.sort is stable).
SortByUploadedAt(reports) ==
  LET n    == Len(reports)
      rank == [i \in 1..n |->
                 Cardinality({j \in 1..n : \/ reports[j].uploadedAt < reports[i].uploadedAt
                                           \/ /\ reports[j].uploadedAt = reports[i].uploadedAt
                                              /\ j < i}) + 1]
  IN  [k \in 1..n |-> reports[CHOOSE i \in 1..n : rank[i] = k]]

\* The size of JSON.stringify(store).
StoreSize(reports) ==
  LET f[i \in 0..Len(reports)] == IF i = 0 THEN 0 ELSE f[i - 1] + reports[i].size
  IN  f[Len(reports)]

\* saveStore(store): whether the store was written, and the reports
\* localStorage holds afterwards (`before` when nothing could be written).
RECURSIVE saveStore(_, _)
saveStore(reports, before) ==
  IF StoreSize(reports) <= QuotaUnits THEN [ok |-> TRUE, localStorage |-> reports]
  ELSE IF Len(reports) > 1 THEN saveStore(Tail(SortByUploadedAt(reports)), before)
  ELSE [ok |-> FALSE, localStorage |-> before]

\* Storage.saveReport(filename, data, reportPeriod), for the report the call
\* builds (its generated id, the time of the call, the size of its data).
saveReport(stored, report) ==
  LET sorted == SortByUploadedAt(stored)
      kept   == IF Len(sorted) >= MAX_REPORTS
                THEN SubSeq(sorted, Len(sorted) - MAX_REPORTS + 2, Len(sorted))
                ELSE sorted
      saved  == saveStore(Append(kept, report), stored)
  IN  [value |-> IF saved.ok THEN report ELSE Null, localStorage |-> saved.localStorage]

\* Storage.deleteReport(id)
deleteReport(stored, id) ==
  LET kept == SelectSeq(stored, LAMBDA r : r.id # id)
  IN  IF Len(kept) = Len(stored) THEN [value |-> FALSE, localStorage |-> stored]
      ELSE LET saved == saveStore(kept, stored)
           IN  [value |-> saved.ok, localStorage |-> saved.localStorage]

\* Storage.deleteAllReports()
deleteAllReports(stored) ==
  LET saved == saveStore(<<>>, stored)
  IN  [value |-> saved.ok, localStorage |-> saved.localStorage]

\* JSON.parse(jsonString) of an export: an object with a reports array.
Incoming(reports) == [reports |-> reports]

\* The incoming reports importAll pushes: those with an id that no report of
\* the store had when the call began.
Pushed(stored, incoming) ==
  SelectSeq(incoming, LAMBDA r : r.id # 0 /\ \A k \in 1..Len(stored) : stored[k].id # r.id)

\* Storage.importAll(jsonString); payload is the parsed text, or null for a
\* text that is not JSON or has no reports array.  An id of 0 is a missing id.
importAll(stored, payload) ==
  IF payload = Null THEN [value |-> -1, localStorage |-> stored]
  ELSE LET pushed == Pushed(stored, payload.reports)
           merged == SortByUploadedAt(stored \o pushed)
           capped == IF Len(merged) > MAX_REPORTS
                     THEN SubSeq(merged, Len(merged) - MAX_REPORTS + 1, Len(merged))
                     ELSE merged
       IN  [value |-> Len(pushed), localStorage |-> saveStore(capped, stored).localStorage]

\* ------------------------------------ specification: the report store
\* The store starts empty; reports are saved, imported and deleted in any
\* order.  args.reports is the reports array in localStorage, args.now the
\* number of saveReport calls so far (the clock), args.input the argument of
\* the last call.

\* Number of saveReport calls.
MaxClock == 2

\* The time of the k-th saveReport call.
TimeOfCall(k) == 100 * k

\* An export of eleven reports older than every call; a payload that lists
\* an id twice; a report dated after every call, as exported by a device
\* whose clock is ahead; a payload with a report under the id of the first
\* saved report, and one without an id; a text that cannot be imported.
ImportPayloads ==
  { Incoming([k \in 1..(MAX_REPORTS - 1) |-> StoredReport(100 + k, k, 1)]),
    Incoming(<<StoredReport(201, 50, 1), StoredReport(201, 60, 1)>>),
    Incoming(<<StoredReport(301, TimeOfCall(MaxClock + 1), 1)>>),
    Incoming(<<StoredReport(1, 70, 1), StoredReport(0, 80, 1)>>),
    Null }

InitStore ==
  /\ op = "none"
  /\ args = [reports |-> <<>>, now |-> 0, input |-> Null]
  /\ result = NotCalled

\* saveReport of a small report or of one that fills localStorage by itself.
CallSaveReport ==
  /\ args.now < MaxClock
  /\ \E size \in {1, QuotaUnits} :
       \E report \in {StoredReport(args.now + 1, TimeOfCall(args.now + 1), size)} :
         \E saved \in {saveReport(args.reports, report)} :
           /\ args' = [reports |-> saved.localStorage, now |-> args.now + 1, input |-> report]
           /\ result' = saved.value
  /\ op' = "saveReport"

CallImportAll ==
  /\ \E payload \in ImportPayloads :
       \E imported \in {importAll(args.reports, payload)} :
         /\ args' = [args EXCEPT !.reports = imported.localStorage, !.input = payload]
         /\ result' = imported.value
  /\ op' = "importAll"

CallDeleteReport ==
  /\ \E id \in {1, 101, 301, 999} :
       \E deleted \in {deleteReport(args.reports, id)} :
         /\ args' = [args EXCEPT !.reports = deleted.localStorage, !.input = id]
         /\ result' = deleted.value
  /\ op' = "deleteReport"

CallDeleteAllReports ==
  /\ \E deleted \in {deleteAllReports(args.reports)} :
       /\ args' = [args EXCEPT !.reports = deleted.localStorage, !.input = Null]
       /\ result' = deleted.value
  /\ op' = "deleteAllReports"

NextStore == CallSaveReport \/ CallImportAll \/ CallDeleteReport \/ CallDeleteAllReports

SpecStore == InitStore /\ [][NextStore]_vars

\* The reports of a store, as a set.
ReportSet(reports) == {reports[k] : k \in 1..Len(reports)}

\* No more than the maximum is stored.
CapKept == [][Len(args'.reports) <= MAX_REPORTS]_vars

\* A report dropped by saveReport or importAll is no newer than any report
\* the call keeps.
EvictsOldest ==
  [][op' \in {"saveReport", "importAll"} /\ args'.reports # args.reports =>
       LET candidates == ReportSet(args.reports) \cup
                         (IF op' = "saveReport" THEN {args'.input}
                          ELSE IF args'.input = Null THEN {}
                          ELSE ReportSet(Pushed(args.reports, args'.input.reports)))
           retained   == ReportSet(args'.reports)
       IN  \A e \in candidates \ retained : \A r \in retained : e.uploadedAt <= r.uploadedAt]_vars

\* The report returned by saveReport is stored.
SavedIsRetained ==
  [][op' = "saveReport" /\ result' # Null => result' \in ReportSet(args'.reports)]_vars

\* C26: from an empty store, after any saveReport, importAll, deleteReport and
\* deleteAllReports calls at most 12 reports are stored; the reports
\* saveReport and importAll evict are those with the oldest uploadedAt; and
\* the report a successful saveReport has just saved is among the retained.
C26_CapAndEviction == CapKept /\ EvictsOldest /\ SavedIsRetained

\* No two reports of a store have the same id.
DistinctIds(reports) ==
  \A i, j \in 1..Len(reports) : i # j => reports[i].id # reports[j].id

\* C27: importAll merges by report id: when the stored reports have pairwise
\* distinct ids before the call they have so after it, whatever the payload
\* (a payload that lists an id twice included); no stored report is replaced
\* by an incoming report of the same id; and the count returned is the number
\* of incoming reports added, one for each new id.
C27_ImportMergesById ==
  [][op' = "importAll" /\ args'.input # Null /\ DistinctIds(args.reports) =>
       /\ DistinctIds(args'.reports)
       /\ \A old \in ReportSet(args.reports) : \A new \in ReportSet(args'.reports) :
            new.id = old.id => new = old
       /\ result' = Cardinality({r.id : r \in ReportSet(Pushed(args.reports,
                                                              args'.input.reports))})]_vars


\* COGS.save(settings): the item localStorage holds afterwards.
save(settings) == JsonStringify([settings EXCEPT !.version = SETTINGS_VERSION])

\* --------------------------- specification: loading and saving settings
\* Any sequence of load and save over a localStorage whose setItem succeeds.
\* args.localStorage is the stored item, result what the last load returned.

\* A materials list as edited in the settings panel.
EditedMaterials ==
  <<Material("sleeve", Rat(5, 100), TRUE, <<"ese", "ga">>),
    Material("mat_9", Rat(1, 4), TRUE, <<>>)>>

\* The settings objects handed to save: any settings, of any version, with
\* their materials or the edited ones.
SaveInputs ==
  SavedSettings \cup {[s EXCEPT !.materials = EditedMaterials] : s \in SavedSettings}

InitSettings ==
  /\ op = "none"
  /\ args \in [localStorage : {NoItem, CorruptItem} \cup {JsonStringify(s) : s \in SavedSettings}]
  /\ result = NotCalled

LoadSettings ==
  /\ \E loaded \in {load(args.localStorage, TRUE)} :
       /\ args' = [localStorage |-> loaded.localStorage]
       /\ result' = loaded
  /\ op' = "load"

SaveSettings ==
  /\ \E settings \in SaveInputs : args' = [localStorage |-> save(settings)]
  /\ op' = "save"
  /\ UNCHANGED result

NextSettings == LoadSettings \/ SaveSettings

SpecSettings == InitSettings /\ [][NextSettings]_vars

\* A load or a save has been made and localStorage holds a settings record:
\* a load has migrated a stale record (or found a current one), or settings
\* have been saved.
Persisted == op \in {"load", "save"} /\ args.localStorage.json = "object"

\* C30: in any sequence of load and save calls over a working store, once a
\* load has migrated a stale record or settings have been saved, every later
\* load returns exactly the persisted settings, at the current version, and
\* leaves them as they are: the materials are reset at most once, and
\* materials saved afterwards are never reset by a load.
C30_ResetAtMostOnce ==
  [][Persisted /\ op' = "load" =>
       /\ result'.value = JsonParse(args.localStorage)
       /\ result'.value.version = SETTINGS_VERSION
       /\ args' = args]_vars

\* Edited materials were saved over a migrated record and the load after
\* that returned them.
C30_Witness ==
  /\ op = "load"
  /\ result.value.materials = EditedMaterials
  /\ result.value.version = SETTINGS_VERSION
  /\ args.localStorage = JsonStringify(result.value)

====
